---- MODULE Spec2Model ----
(***************************************************************************)
(* A model of the hdhomerun client library used by hdhomerun_exporter:     *)
(* the packet codec (packet.go), the transaction client (Client.Execute,   *)
(* Client.Query, Client.ForEachTuner) and UDP discovery                    *)
(* (Discoverer.Discover).                                                  *)
(*                                                                         *)
(* Bytes are the integers 0..255, byte slices are sequences of bytes, and  *)
(* Go's 0-based half-open slices b[lo:hi] are written Slice(b, lo, hi).    *)
(* 32-bit checksums are kept as their four little-endian bytes.            *)
(***************************************************************************)
EXTENDS Integers, Sequences, FiniteSets, TLC

VARIABLES
    \* codec harness: one input pushed through the codec, either
    \* bytes -> UnmarshalBinary -> MarshalBinary (fuzz.go's Fuzz) or
    \* Packet -> MarshalBinary -> UnmarshalBinary
    cmode,      \* "decode" | "encode" | "off"
    cstep,      \* number of codec calls made so far
    cdata,      \* decode: the input bytes; encode: MarshalBinary's output
    cpkt,       \* decode: UnmarshalBinary's output; encode: the input Packet
    cdata2,     \* decode: the bytes MarshalBinary returned for cpkt
    cpkt2,      \* encode: the Packet UnmarshalBinary returned for cdata
    cerr        \* the error of the last codec call

codecVars == <<cmode, cstep, cdata, cpkt, cdata2, cpkt2, cerr>>

VARIABLES
    \* Client (client.go) and the goroutines calling it
    mu,         \* Client.mu: 0 when unlocked, else the goroutine holding it
    timeout,    \* Client.timeout
    cb,         \* the bytes c.b[:n] of the receive buffer filled by the last Read
    closed,     \* the net.Conn has been closed
    deadline,   \* the deadline set on the net.Conn: 0 none, else the call that armed it
    wire,       \* requests written to the connection, not yet taken by the device
    rx,         \* replies sent by the device, not yet read by the Client
    ncalls,     \* calls started so far; call k is the k-th started
    gpc,        \* each goroutine's position
    gcall,      \* each goroutine's current call
    gres,       \* each goroutine's last Execute result
    unread      \* an Execute returned after its write without reading a reply

clientVars ==
    <<mu, timeout, cb, closed, deadline, wire, rx, ncalls, gpc, gcall, gres, unread>>

VARIABLES
    \* one Client.Query call against a device
    qstep,      \* 0 before the call, 1 after it returned
    qquery,     \* the query string
    qdev,       \* what the connection does with the request (see DeviceAnswers)
    qres        \* what Query returned

queryVars == <<qstep, qquery, qdev, qres>>

VARIABLES
    \* one Client.ForEachTuner call against a device
    fpc,        \* "probe": about to call t.Debug(); "callback": about to call fn(t); "done"
    fi,         \* the loop variable i
    fprobes,    \* the indices queried so far, in order
    fvisits,    \* the indices fn was invoked for so far, in order
    fans,       \* how the device answered each query (see TunerAnswer)
    fcberr,     \* fn returned an error
    fret        \* what ForEachTuner returned

tunerVars == <<fpc, fi, fprobes, fvisits, fans, fcberr, fret>>

VARIABLES
    dctx,       \* ctx.Err() of the current call's context: "nil", "Canceled", "DeadlineExceeded"
    dsock,      \* d.c: "open" or "closed"; "none" before ListenUDP
    dinbox,     \* datagrams received by the socket and not yet read
    dpc,        \* position of the goroutine calling Discover
    dwatch,     \* position of the goroutine started by discover
    dmsgC,      \* msgC: "none", "open" or "closed"
    dwg,        \* wg's counter
    dbuf,       \* b[:n] of the last successful ReadFrom
    dpend,      \* what discover is about to return, its deferred wg.Wait pending
    dret,       \* what the last completed Discover call returned
    dfound,     \* the devices returned so far, in order
    dcalls,     \* Discover calls made
    darrivals,  \* datagrams received so far
    dreads,     \* ReadFrom calls of the current Discover call
    dpre,       \* the context was done when the current call began
    dcanAt,     \* dpc when the context of the current call was cancelled
    dlate,      \* a datagram was read after the cancellation
    dsent       \* the datagrams written to the socket so far, in order

discVars ==
    <<dctx, dsock, dinbox, dpc, dwatch, dmsgC, dwg, dbuf, dpend, dret, dfound,
      dcalls, darrivals, dreads, dpre, dcanAt, dlate, dsent>>

VARIABLES
    epc,        \* IsNotExist harness: "start", "returned", "checked"
    esrc,       \* where the error under test comes from
    etext,      \* the data of the error tag on the wire, if there is one
    eerr,       \* the error Query returned
    eans        \* what IsNotExist answered for it

notExistVars == <<epc, esrc, etext, eerr, eans>>

VARIABLES
    lpc,        \* tag length harness: "write", "read", "done" | "off"
    ln,         \* the data length n handed to writeTagLength
    lw,         \* what writeTagLength returned: the window written, consumed, err
    lr          \* what readTagLength returned for that window: length, consumed, err

lenVars == <<lpc, ln, lw, lr>>

VARIABLES
    dopts       \* the options handed to NewDiscoverer, in order

optionVars == <<dopts>>

VARIABLES
    rpc,        \* reply tag harness: "query", "device", "done" | "off"
    rpkt,       \* the reply Packet as decoded
    rq,         \* what Query returned for it
    rd          \* what newDiscoveredDevice returned for it

replyVars == <<rpc, rpkt, rq, rd>>

VARIABLES
    upc,        \* receiver harness: "call", "done" | "off"
    urecv,      \* the Packet UnmarshalBinary is called on, as it was before the call
    ubuf,       \* the bytes handed to it
    upkt,       \* the Packet after the call
    uerr        \* the error returned

intoVars == <<upc, urecv, ubuf, upkt, uerr>>

VARIABLES
    kpc,        \* Collect: "model", "probe", "debug", "done" | "off"
    ki,         \* the index of the tuner ForEachTuner is at
    kch,        \* the metrics sent on ch so far, in order
    kq,         \* the device queries made so far, in order
    kcc,        \* ccOnce has run
    kseen       \* the status sections each visited tuner reported, in order

collectVars == <<kpc, ki, kch, kq, kcc, kseen>>

VARIABLES
    bpc,        \* tag length buffers: "write", "read", "marshal", "unmarshal", "done" | "off"
    bn,         \* the length n handed to writeTagLength
    bbuf,       \* the buffer handed to the helpers
    bw,         \* what writeTagLength returned: the buffer as written, consumed, err
    brd,         \* what readTagLength returned: length, consumed, err
    benc,       \* MarshalBinary: its error, the buffer's size, the windows it passed
    bdec        \* UnmarshalBinary: its error

bufVars == <<bpc, bn, bbuf, bw, brd, benc, bdec>>

VARIABLES
    hpc,        \* ServeHTTP: "idle", "target", "dial", "model", "tuners", "close" | "off"
    hreq,       \* the request being served: whether it has a target parameter, and its value
    haddr,      \* the address handed to dial
    hdials,     \* the addresses dial was called with for this request
    hclient,    \* the Client dial returned: "none", "open", "closed"
    hcalls,     \* the device methods called for this request, in order
    hcloses,    \* the number of Close calls on the Client
    hfail,      \* which step of this request failed: "none", "dial", "model", "tuners"
    hcode,      \* the status of the response written, 0 before there is one
    hserved     \* the number of requests answered

handlerVars ==
    <<hpc, hreq, haddr, hdials, hclient, hcalls, hcloses, hfail, hcode, hserved>>

vars ==
    <<codecVars, clientVars, queryVars, tunerVars, discVars, notExistVars,
      lenVars, handlerVars, optionVars, replyVars, intoVars, collectVars, bufVars>>

\* what a step of one component leaves alone
CodecFrame ==
    UNCHANGED <<clientVars, queryVars, tunerVars, discVars, notExistVars,
                lenVars, handlerVars, optionVars, replyVars, intoVars, collectVars, bufVars>>

ClientFrame ==
    UNCHANGED <<codecVars, queryVars, tunerVars, discVars, notExistVars,
                lenVars, handlerVars, optionVars, replyVars, intoVars, collectVars, bufVars>>

QueryFrame ==
    UNCHANGED <<codecVars, clientVars, tunerVars, discVars, notExistVars,
                lenVars, handlerVars, optionVars, replyVars, intoVars, collectVars, bufVars>>

TunerFrame ==
    UNCHANGED <<codecVars, clientVars, queryVars, discVars, notExistVars,
                lenVars, handlerVars, optionVars, replyVars, intoVars, collectVars, bufVars>>

DiscFrame ==
    UNCHANGED <<codecVars, clientVars, queryVars, tunerVars, notExistVars,
                lenVars, handlerVars, optionVars, replyVars, intoVars, collectVars, bufVars>>

NotExistFrame ==
    UNCHANGED <<codecVars, clientVars, queryVars, tunerVars, discVars,
                lenVars, handlerVars, optionVars, replyVars, intoVars, collectVars, bufVars>>

LenFrame ==
    UNCHANGED <<codecVars, clientVars, queryVars, tunerVars, discVars, notExistVars,
                handlerVars, optionVars, replyVars, intoVars, collectVars, bufVars>>

ReplyFrame ==
    UNCHANGED <<codecVars, clientVars, queryVars, tunerVars, discVars, notExistVars,
                lenVars, handlerVars, optionVars, intoVars, collectVars, bufVars>>

IntoFrame ==
    UNCHANGED <<codecVars, clientVars, queryVars, tunerVars, discVars, notExistVars,
                lenVars, handlerVars, optionVars, replyVars, collectVars, bufVars>>

CollectFrame ==
    UNCHANGED <<codecVars, clientVars, queryVars, tunerVars, discVars, notExistVars,
                lenVars, handlerVars, optionVars, replyVars, intoVars, bufVars>>

BufFrame ==
    UNCHANGED <<codecVars, clientVars, queryVars, tunerVars, discVars, notExistVars,
                lenVars, handlerVars, optionVars, replyVars, intoVars, collectVars>>

HandlerFrame ==
    UNCHANGED <<codecVars, clientVars, queryVars, tunerVars, discVars, notExistVars,
                lenVars, optionVars, replyVars, intoVars, collectVars, bufVars>>

-----------------------------------------------------------------------------
(* internal/libhdhomerun: protocol constants *)

TypeDiscoverReq == 2
TypeDiscoverRpy == 3
TypeGetsetReq == 4
TypeGetsetRpy == 5
TagDeviceType == 1
TagDeviceId == 2
TagGetsetName == 3
TagGetsetValue == 4
TagErrorMessage == 5
TagGetsetLockkey == 21
TagTunerCount == 16
TagBaseUrl == 42

-----------------------------------------------------------------------------
(* Bit operations on bytes *)

RECURSIVE XorN(_, _, _)
XorN(a, b, k) ==
    IF k = 0 THEN 0
    ELSE (((a % 2) + (b % 2)) % 2) + 2 * XorN(a \div 2, b \div 2, k - 1)

RECURSIVE OrN(_, _, _)
OrN(a, b, k) ==
    IF k = 0 THEN 0
    ELSE (IF a % 2 = 1 \/ b % 2 = 1 THEN 1 ELSE 0) + 2 * OrN(a \div 2, b \div 2, k - 1)

RECURSIVE AndN(_, _, _)
AndN(a, b, k) ==
    IF k = 0 THEN 0
    ELSE (IF a % 2 = 1 /\ b % 2 = 1 THEN 1 ELSE 0) + 2 * AndN(a \div 2, b \div 2, k - 1)

Xor4 == [a \in 0..15 |-> [b \in 0..15 |-> XorN(a, b, 4)]]

Xor8(a, b) == 16 * Xor4[a \div 16][b \div 16] + Xor4[a % 16][b % 16]

Or8(a, b) == OrN(a, b, 8)

And8(a, b) == AndN(a, b, 8)

\* Go's b[lo:hi] and b[i] for 0-based indices
Slice(b, lo, hi) == SubSeq(b, lo + 1, hi)

At(b, i) == b[i + 1]

-----------------------------------------------------------------------------
(* hash/crc32.ChecksumIEEE, on little-endian 4-byte words *)

\* the reflected IEEE polynomial 0xEDB88320, least significant byte first
IEEEPoly == <<32, 131, 184, 237>>

Xor32(x, y) == <<Xor8(x[1], y[1]), Xor8(x[2], y[2]), Xor8(x[3], y[3]), Xor8(x[4], y[4])>>

Shr1(x) ==
    << (x[1] \div 2) + 128 * (x[2] % 2),
       (x[2] \div 2) + 128 * (x[3] % 2),
       (x[3] \div 2) + 128 * (x[4] % 2),
       x[4] \div 2 >>

RECURSIVE CrcEntry(_, _)
CrcEntry(c, k) ==
    IF k = 0 THEN c
    ELSE CrcEntry(IF c[1] % 2 = 1 THEN Xor32(Shr1(c), IEEEPoly) ELSE Shr1(c), k - 1)

CrcTable == [i \in 0..255 |-> CrcEntry(<<i, 0, 0, 0>>, 8)]

CrcUpdate(c, byte) ==
    LET e == CrcTable[Xor8(c[1], byte)]
    IN  <<Xor8(e[1], c[2]), Xor8(e[2], c[3]), Xor8(e[3], c[4]), e[4]>>

\* the checksum register after bytes lo..hi of b, starting from c
\* (the byte loop of the checksum, split in halves to keep evaluation shallow)
RECURSIVE CrcFold(_, _, _, _)
CrcFold(c, b, lo, hi) ==
    IF lo > hi THEN c
    ELSE IF lo = hi THEN CrcUpdate(c, b[lo])
    ELSE LET mid  == (lo + hi) \div 2
             left == CrcFold(c, b, lo, mid)
         IN  IF left[1] >= 0 THEN CrcFold(left, b, mid + 1, hi) ELSE left

\* crc32.ChecksumIEEE(b), as the 4 bytes binary.LittleEndian.PutUint32 stores
ChecksumIEEE(b) ==
    Xor32(CrcFold(<<255, 255, 255, 255>>, b, 1, Len(b)), <<255, 255, 255, 255>>)

-----------------------------------------------------------------------------
(* packet.go: the packet codec *)

largeTagLength == 128

\* binary.BigEndian.PutUint16 / Uint16
PutUint16BE(v) == <<(v \div 256) % 256, v % 256>>

Uint16BE(b) == 256 * b[1] + b[2]

\* writeTagLength with the high part shifted by a whole byte (n >> 8)
writeTagLengthShift8(n, b) ==
    IF Len(b) # 2 THEN [b |-> b, consumed |-> 0, err |-> "errTagLengthBuffer"]
    ELSE IF n < 128
         THEN [b |-> <<n % 256, b[2]>>, consumed |-> 1, err |-> "nil"]
         ELSE [b |-> << Or8(b[1], Or8(128, n % 256)),
                        Or8(b[2], (n \div 256) % 256) >>,
               consumed |-> 2, err |-> "nil"]

\* writeTagLength taking a one-byte buffer for a length that needs one byte
writeTagLengthOneByte(n, b) ==
    IF Len(b) = 1 /\ n < largeTagLength
    THEN [b |-> <<n % 256>>, consumed |-> 1, err |-> "nil"]
    ELSE IF Len(b) # 2 THEN [b |-> b, consumed |-> 0, err |-> "errTagLengthBuffer"]
    ELSE IF n < largeTagLength
         THEN [b |-> <<n % 256, b[2]>>, consumed |-> 1, err |-> "nil"]
         ELSE [b |-> << Or8(b[1], Or8(128, n % 256)),
                        Or8(b[2], (n \div 128) % 256) >>,
               consumed |-> 2, err |-> "nil"]

\* writeTagLength(n, b): b is the window b[i:i+2] of the output buffer.
\* Returns the window as written, the bytes consumed and the error.
writeTagLength(n, b) ==
    IF Len(b) # 2 THEN [b |-> b, consumed |-> 0, err |-> "errTagLengthBuffer"]
    ELSE IF n < largeTagLength
         THEN [b |-> <<n % 256, b[2]>>, consumed |-> 1, err |-> "nil"]
         ELSE [b |-> << Or8(b[1], Or8(128, n % 256)),
                        Or8(b[2], (n \div 128) % 256) >>,
               consumed |-> 2, err |-> "nil"]

\* readTagLength with the second byte shifted by a whole byte (b[1] << 8)
readTagLengthShift8(b) ==
    IF Len(b) # 2 THEN [length |-> 0, consumed |-> 0, err |-> "errTagLengthBuffer"]
    ELSE IF And8(b[1], 128) = 0
         THEN [length |-> b[1], consumed |-> 1, err |-> "nil"]
         ELSE [length |-> And8(b[1], 127) + 256 * b[2],
               consumed |-> 2, err |-> "nil"]

\* readTagLength(b)
readTagLength(b) ==
    IF Len(b) # 2 THEN [length |-> 0, consumed |-> 0, err |-> "errTagLengthBuffer"]
    ELSE IF And8(b[1], 128) = 0
         THEN [length |-> b[1], consumed |-> 1, err |-> "nil"]
         ELSE [length |-> Or8(And8(b[1], 127), 0) + 128 * b[2],
               consumed |-> 2, err |-> "nil"]

\* the zero Packet
NoPacket == [Type |-> 0, Tags |-> <<>>]

\* the first loop of MarshalBinary: the size of the encoded tags
RECURSIVE TagsCount(_)
TagsCount(tags) ==
    IF tags = <<>> THEN 0
    ELSE LET t == Head(tags)
             tlen == IF Len(t.Data) >= largeTagLength THEN 2 ELSE 1
         IN  1 + tlen + Len(t.Data) + TagsCount(Tail(tags))

\* one iteration of the second loop of MarshalBinary: the bytes written for
\* tag t into the zeroed buffer (type, length field, data)
MarshalTag(t) ==
    LET w == writeTagLength(Len(t.Data), <<0, 0>>)
    IN  [err |-> w.err,
         bytes |-> <<t.Type>> \o SubSeq(w.b, 1, w.consumed) \o t.Data]

RECURSIVE MarshalTags(_)
MarshalTags(tags) ==
    IF tags = <<>> THEN [err |-> "nil", bytes |-> <<>>]
    ELSE LET h == MarshalTag(Head(tags))
         IN  IF h.err # "nil" THEN [err |-> h.err, bytes |-> <<>>]
             ELSE LET r == MarshalTags(Tail(tags))
                  IN  IF r.err # "nil" THEN r
                      ELSE [err |-> "nil", bytes |-> h.bytes \o r.bytes]

\* Packet.MarshalBinary
MarshalBinary(p) ==
    LET count == TagsCount(p.Tags)
        body  == MarshalTags(p.Tags)
        head  == PutUint16BE(p.Type) \o PutUint16BE(count % 65536) \o body.bytes
    IN  IF body.err # "nil" THEN [err |-> body.err, b |-> <<>>]
        ELSE [err |-> "nil", b |-> head \o ChecksumIEEE(head)]

\* tag data left as a view of b[lo:hi]: no bytes of its own, only the bounds
\* (-1 marks a view; bytes are never negative)
viewData(b, lo, hi) == <<-1, lo, hi>>

\* t.Data = make([]byte, len(b[i:i+tlen])); copy(t.Data, b[i:i+tlen]): the
\* tag's own bytes
copyData(b, lo, hi) == Slice(b, lo, hi)

\* the bytes tag data stands for while the buffer it was decoded from holds
\* buf: its own bytes, or for a view whatever the buffer holds now
Resolve(data, buf) ==
    IF Len(data) = 3 /\ data[1] = -1
    THEN [i \in 1..(data[3] - data[2]) |->
             IF data[2] + i <= Len(buf) THEN buf[data[2] + i] ELSE 0]
    ELSE data

\* a Packet as its holder reads it while the buffer holds buf
Observe(p, buf) ==
    [Type |-> p.Type,
     Tags |-> [i \in 1..Len(p.Tags) |->
                  [Type |-> p.Tags[i].Type, Data |-> Resolve(p.Tags[i].Data, buf)]]]

\* the tag loop comparing a tag's length with all the bytes that are left,
\* the checksum among them
RECURSIVE UnmarshalTagsIntoChecksum(_, _, _)
UnmarshalTagsIntoChecksum(b, i, tags) ==
    IF ~(i < Len(b) - 4) THEN [err |-> "nil", Tags |-> tags]
    ELSE LET typ == At(b, i)
             j   == i + 1
         IN  IF j + 2 > Len(b) THEN [err |-> "panic", Tags |-> tags]
             ELSE LET r == readTagLength(Slice(b, j, j + 2))
                      k == j + r.consumed
                  IN  IF r.err # "nil" THEN [err |-> r.err, Tags |-> tags]
                      ELSE IF Len(b) - k < r.length
                           THEN [err |-> "ErrUnexpectedEOF", Tags |-> tags]
                           ELSE UnmarshalTagsIntoChecksum(b, k + r.length,
                                    Append(tags, [Type |-> typ,
                                                  Data |-> Slice(b, k, k + r.length)]))

\* the tag loop of UnmarshalBinary, from offset i with the tags read so far;
\* "panic" stands for a slice bound out of range
RECURSIVE UnmarshalTags(_, _, _)
UnmarshalTags(b, i, tags) ==
    IF ~(i < Len(b) - 4) THEN [err |-> "nil", Tags |-> tags]
    ELSE LET typ == At(b, i)
             j   == i + 1
         IN  IF j + 2 > Len(b) THEN [err |-> "panic", Tags |-> tags]
             ELSE LET r == readTagLength(Slice(b, j, j + 2))
                      k == j + r.consumed
                  IN  IF r.err # "nil" THEN [err |-> r.err, Tags |-> tags]
                      ELSE IF (Len(b) - k) - 4 < r.length
                           THEN [err |-> "ErrUnexpectedEOF", Tags |-> tags]
                           ELSE UnmarshalTags(b, k + r.length,
                                    Append(tags, [Type |-> typ,
                                                  Data |-> copyData(b, k, k + r.length)]))

\* UnmarshalBinary refusing only a declared length beyond the buffer
UnmarshalBinaryLengthAtMost(b) ==
    IF Len(b) < 8 THEN [err |-> "ErrUnexpectedEOF", Type |-> 0, Tags |-> <<>>]
    ELSE LET want   == Slice(b, Len(b) - 4, Len(b))
             got    == ChecksumIEEE(Slice(b, 0, Len(b) - 4))
             typ    == Uint16BE(Slice(b, 0, 2))
             length == Uint16BE(Slice(b, 2, 4))
         IN  IF want # got THEN [err |-> "errInvalidChecksum", Type |-> 0, Tags |-> <<>>]
             ELSE IF length > Len(b) - 8
             THEN [err |-> "ErrUnexpectedEOF", Type |-> typ, Tags |-> <<>>]
             ELSE IF length = 0 THEN [err |-> "nil", Type |-> typ, Tags |-> <<>>]
             ELSE LET r == UnmarshalTags(b, 4, <<>>)
                  IN  [err |-> r.err, Type |-> typ, Tags |-> r.Tags]

\* UnmarshalBinary comparing the declared length before the checksum
UnmarshalBinaryLengthFirst(b) ==
    IF Len(b) < 8 THEN [err |-> "ErrUnexpectedEOF", Type |-> 0, Tags |-> <<>>]
    ELSE LET want   == Slice(b, Len(b) - 4, Len(b))
             got    == ChecksumIEEE(Slice(b, 0, Len(b) - 4))
             typ    == Uint16BE(Slice(b, 0, 2))
             length == Uint16BE(Slice(b, 2, 4))
         IN  IF length # Len(b) - 8
             THEN [err |-> "ErrUnexpectedEOF", Type |-> typ, Tags |-> <<>>]
             ELSE IF want # got THEN [err |-> "errInvalidChecksum", Type |-> 0, Tags |-> <<>>]
             ELSE IF length = 0 THEN [err |-> "nil", Type |-> typ, Tags |-> <<>>]
             ELSE LET r == UnmarshalTags(b, 4, <<>>)
                  IN  [err |-> r.err, Type |-> typ, Tags |-> r.Tags]

\* Packet.UnmarshalBinary into a fresh Packet
UnmarshalBinary(b) ==
    IF Len(b) < 8 THEN [err |-> "ErrUnexpectedEOF", Type |-> 0, Tags |-> <<>>]
    ELSE LET want == Slice(b, Len(b) - 4, Len(b))
             got  == ChecksumIEEE(Slice(b, 0, Len(b) - 4))
         IN  IF want # got THEN [err |-> "errInvalidChecksum", Type |-> 0, Tags |-> <<>>]
             ELSE LET typ    == Uint16BE(Slice(b, 0, 2))
                      length == Uint16BE(Slice(b, 2, 4))
                  IN  IF length # Len(b) - 8
                      THEN [err |-> "ErrUnexpectedEOF", Type |-> typ, Tags |-> <<>>]
                      ELSE IF length = 0 THEN [err |-> "nil", Type |-> typ, Tags |-> <<>>]
                      ELSE LET r == UnmarshalTags(b, 4, <<>>)
                           IN  [err |-> r.err, Type |-> typ, Tags |-> r.Tags]

\* p.UnmarshalBinary(b) on a Packet p that may hold a type and tags already:
\* the error and the fields of p after the call.  p.Type is assigned once
\* the checksum has been verified, p.Tags only after the test for an empty
\* payload.
UnmarshalBinaryInto(p, b) ==
    IF Len(b) < 8 THEN [err |-> "ErrUnexpectedEOF", Type |-> p.Type, Tags |-> p.Tags]
    ELSE LET want == Slice(b, Len(b) - 4, Len(b))
             got  == ChecksumIEEE(Slice(b, 0, Len(b) - 4))
         IN  IF want # got THEN [err |-> "errInvalidChecksum", Type |-> p.Type, Tags |-> p.Tags]
             ELSE LET typ    == Uint16BE(Slice(b, 0, 2))
                      length == Uint16BE(Slice(b, 2, 4))
                  IN  IF length # Len(b) - 8
                      THEN [err |-> "ErrUnexpectedEOF", Type |-> typ, Tags |-> p.Tags]
                      ELSE IF length = 0 THEN [err |-> "nil", Type |-> typ, Tags |-> p.Tags]
                      ELSE LET r == UnmarshalTags(b, 4, <<>>)
                           IN  [err |-> r.err, Type |-> typ, Tags |-> r.Tags]

-----------------------------------------------------------------------------
(* client.go: Client, Execute, SetTimeout, Close *)

\* goroutines calling one Client
NumCallers == 2

\* calls made on the Client in one run
MaxCalls == 3

Callers == 1..NumCallers

\* timeouts handed to SetTimeout (0: none)
Durations == {0, 1}

\* strBytes / bytesStr
strBytes(str) == Append(str, 0)

bytesStr(b) == IF b # <<>> /\ b[Len(b)] = 0 THEN SubSeq(b, 1, Len(b) - 1) ELSE b

\* the query string of call k ("a", "b", ...), distinct per call
QueryName(k) == <<96 + k>>

\* the request Packet Query builds
QueryRequest(query) ==
    [Type |-> TypeGetsetReq,
     Tags |-> <<[Type |-> TagGetsetName, Data |-> strBytes(query)]>>]

NoCall == [op |-> "none", id |-> 0, d |-> 0]

NoResult == [id |-> 0, err |-> "none", rep |-> NoPacket]

ClientOff ==
    /\ mu = 0 /\ timeout = 0 /\ cb = <<>> /\ closed = FALSE /\ deadline = 0
    /\ wire = <<>> /\ rx = <<>> /\ ncalls = 0
    /\ gpc = <<>> /\ gcall = <<>> /\ gres = <<>> /\ unread = FALSE

\* NewClient: the state after construction; the caller may have set a
\* deadline on the net.Conn beforehand (-1)
InitClient ==
    /\ mu = 0
    /\ timeout = 0
    /\ cb = <<>>
    /\ closed = FALSE
    /\ deadline \in {0, -1}
    /\ wire = <<>>
    /\ rx = <<>>
    /\ ncalls = 0
    /\ gpc = [g \in Callers |-> "idle"]
    /\ gcall = [g \in Callers |-> NoCall]
    /\ gres = [g \in Callers |-> NoResult]
    /\ unread = FALSE

\* a Lock that returns whether or not the mutex is held
MutexFreeNoExclusion == TRUE

\* c.mu.Lock() returns only when no goroutine holds the mutex
MutexFree == mu = 0

\* c.mu.Lock(): the first statement of Execute, SetTimeout and Close; a
\* goroutine whose Lock has not returned yet has not touched the Client.
\* Goroutines are interchangeable, so they make their first calls in the
\* order of their numbers.
Lock(g) ==
    /\ gpc[g] = "idle" /\ ncalls < MaxCalls
    /\ MutexFree
    /\ \A h \in Callers : h < g => gcall[h].op # "none"
    /\ mu' = g
    /\ ncalls' = ncalls + 1

\* a goroutine calls Execute and gets the mutex
CallExecute(g) ==
    /\ Lock(g)
    /\ gcall' = [gcall EXCEPT ![g] = [op |-> "Execute", id |-> ncalls + 1, d |-> 0]]
    /\ gpc' = [gpc EXCEPT ![g] = "arm"]
    /\ UNCHANGED <<timeout, cb, closed, deadline, wire, rx, gres, unread>>
    /\ ClientFrame

\* a goroutine calls SetTimeout(d) and gets the mutex
CallSetTimeout(g) ==
    /\ Lock(g)
    /\ \E d \in Durations :
          gcall' = [gcall EXCEPT ![g] = [op |-> "SetTimeout", id |-> ncalls + 1, d |-> d]]
    /\ gpc' = [gpc EXCEPT ![g] = "set"]
    /\ UNCHANGED <<timeout, cb, closed, deadline, wire, rx, gres, unread>>
    /\ ClientFrame

\* a goroutine calls Close and gets the mutex
CallClose(g) ==
    /\ Lock(g)
    /\ gcall' = [gcall EXCEPT ![g] = [op |-> "Close", id |-> ncalls + 1, d |-> 0]]
    /\ gpc' = [gpc EXCEPT ![g] = "close"]
    /\ UNCHANGED <<timeout, cb, closed, deadline, wire, rx, gres, unread>>
    /\ ClientFrame

\* SetTimeout: c.timeout = d, then the deferred Unlock
SetTimeout(g) ==
    /\ gpc[g] = "set"
    /\ timeout' = gcall[g].d
    /\ mu' = 0
    /\ gpc' = [gpc EXCEPT ![g] = "idle"]
    /\ UNCHANGED <<cb, closed, deadline, wire, rx, ncalls, gcall, gres, unread>>
    /\ ClientFrame

\* Close: c.c.Close(), then the deferred Unlock
Close(g) ==
    /\ gpc[g] = "close"
    /\ closed' = TRUE
    /\ mu' = 0
    /\ gpc' = [gpc EXCEPT ![g] = "idle"]
    /\ UNCHANGED <<timeout, cb, deadline, wire, rx, ncalls, gcall, gres, unread>>
    /\ ClientFrame

\* Execute returning (nil, err) with the mutex still held
ExecFailKeepsLock(g, err) ==
    /\ gres' = [gres EXCEPT ![g] = [id |-> gcall[g].id, err |-> err, rep |-> NoPacket]]
    /\ mu' = mu
    /\ gpc' = [gpc EXCEPT ![g] = "idle"]

\* Execute returns (nil, err): the deferred Unlock runs
ExecFail(g, err) ==
    /\ gres' = [gres EXCEPT ![g] = [id |-> gcall[g].id, err |-> err, rep |-> NoPacket]]
    /\ mu' = 0
    /\ gpc' = [gpc EXCEPT ![g] = "idle"]

\* Execute: if c.timeout != 0, c.c.SetDeadline(now + timeout)
ExecArm(g) ==
    /\ gpc[g] = "arm"
    /\ IF timeout = 0
       THEN /\ gpc' = [gpc EXCEPT ![g] = "write"]
            /\ UNCHANGED <<mu, deadline, gres>>
       ELSE IF closed
            THEN ExecFail(g, "setdeadline") /\ UNCHANGED deadline
            ELSE /\ deadline' = gcall[g].id
                 /\ gpc' = [gpc EXCEPT ![g] = "write"]
                 /\ UNCHANGED <<mu, gres>>
    /\ UNCHANGED <<timeout, cb, closed, wire, rx, ncalls, gcall, unread>>
    /\ ClientFrame

\* Execute: req.MarshalBinary() and c.c.Write(pb); the write fails on a
\* closed connection and may fail on an armed deadline
ExecWrite(g) ==
    /\ gpc[g] = "write"
    /\ LET m == MarshalBinary(QueryRequest(QueryName(gcall[g].id)))
       IN  \/ /\ m.err = "nil" /\ ~closed
              /\ wire' = Append(wire, m.b)
              /\ gpc' = [gpc EXCEPT ![g] = "read"]
              /\ UNCHANGED <<mu, gres>>
           \/ /\ m.err # "nil"
              /\ ExecFail(g, m.err)
              /\ UNCHANGED wire
           \/ /\ m.err = "nil" /\ (closed \/ deadline # 0)
              /\ ExecFail(g, "write")
              /\ UNCHANGED wire
    /\ UNCHANGED <<timeout, cb, closed, deadline, rx, ncalls, gcall, unread>>
    /\ ClientFrame

\* Execute: n, err := c.c.Read(c.b); blocks until the device has sent
\* something, and fails on a closed connection or on an armed deadline
ExecRead(g) ==
    /\ gpc[g] = "read"
    /\ \/ /\ ~closed /\ rx # <<>>
          /\ cb' = Head(rx)
          /\ rx' = Tail(rx)
          /\ gpc' = [gpc EXCEPT ![g] = "decode"]
          /\ UNCHANGED <<mu, gres, unread>>
       \/ /\ closed \/ deadline # 0
          /\ ExecFail(g, "read")
          /\ unread' = TRUE
          /\ UNCHANGED <<cb, rx>>
    /\ UNCHANGED <<timeout, closed, deadline, wire, ncalls, gcall>>
    /\ ClientFrame

\* Execute: rep.UnmarshalBinary(c.b[:n]) and return
ExecDecode(g) ==
    /\ gpc[g] = "decode"
    /\ LET r == UnmarshalBinary(cb)
       IN  IF r.err # "nil"
           THEN ExecFail(g, r.err)
           ELSE /\ gres' = [gres EXCEPT ![g] =
                               [id |-> gcall[g].id, err |-> "nil",
                                rep |-> [Type |-> r.Type, Tags |-> r.Tags]]]
                /\ mu' = 0
                /\ gpc' = [gpc EXCEPT ![g] = "idle"]
    /\ UNCHANGED <<timeout, cb, closed, deadline, wire, rx, ncalls, gcall, unread>>
    /\ ClientFrame

\* the reply a device gives to a get of the name in request bytes b: the
\* name echoed and a value
DeviceReply(b) ==
    LET q == Observe(UnmarshalBinary(b), b)
    IN  [Type |-> TypeGetsetRpy,
         Tags |-> << [Type |-> TagGetsetName, Data |-> q.Tags[1].Data],
                     [Type |-> TagGetsetValue, Data |-> <<118, 0>>] >>]

\* the device takes the oldest request and answers it: requests are
\* answered in order, one reply each; a reply may arrive damaged
DeviceAnswer ==
    /\ wire # <<>>
    /\ wire' = Tail(wire)
    /\ LET good == MarshalBinary(DeviceReply(Head(wire))).b
       IN  \/ rx' = Append(rx, good)
           \/ rx' = Append(rx, [good EXCEPT ![Len(good)] = Xor8(@, 1)])
    /\ UNCHANGED <<mu, timeout, cb, closed, deadline, ncalls, gpc, gcall, gres, unread>>
    /\ ClientFrame

NextClient ==
    \/ \E g \in Callers : CallExecute(g)
    \/ \E g \in Callers : CallSetTimeout(g)
    \/ \E g \in Callers : CallClose(g)
    \/ \E g \in Callers : SetTimeout(g)
    \/ \E g \in Callers : Close(g)
    \/ \E g \in Callers : ExecArm(g)
    \/ \E g \in Callers : ExecWrite(g)
    \/ \E g \in Callers : ExecRead(g)
    \/ \E g \in Callers : ExecDecode(g)
    \/ DeviceAnswer

-----------------------------------------------------------------------------
(* client.go: Query, Error, IsNotExist *)

\* a nil byte slice, as opposed to an empty one
Nil == <<-1>>

\* "ERROR: "
errorPrefix == <<69, 82, 82, 79, 82, 58, 32>>

\* "unknown getset variable"
unknownGetSet ==
    <<117, 110, 107, 110, 111, 119, 110, 32, 103, 101, 116, 115, 101, 116, 32,
      118, 97, 114, 105, 97, 98, 108, 101>>

\* strings.TrimPrefix
TrimPrefix(str, prefix) ==
    IF Len(str) >= Len(prefix) /\ SubSeq(str, 1, Len(prefix)) = prefix
    THEN SubSeq(str, Len(prefix) + 1, Len(str))
    ELSE str

\* newError leaving the prefix in the Message
newErrorKeepsPrefix(b) == bytesStr(b)

\* newError: the Message of the Error made from an error tag's data
newError(b) == TrimPrefix(bytesStr(b), errorPrefix)

\* what Execute and Query return: kind "ok" with a value or a reply, or an
\* error of kind "transport" (I/O), "framing" (codec), "protocol" (a reply
\* Query does not accept) or "device" (an *Error with its Message)
Failure(kind, what) ==
    [kind |-> kind, err |-> what, msg |-> <<>>, value |-> Nil, rep |-> NoPacket]

DeviceError(message) ==
    [kind |-> "device", err |-> "Error", msg |-> message, value |-> Nil, rep |-> NoPacket]

\* Execute on a Client no other goroutine uses and with no timeout set:
\* marshal, one Write, one Read, unmarshal.  dev tells what the connection
\* does: the Write fails (werr), the Read fails (rerr), or the Read
\* returns dev.bytes.
Execute(req, dev) ==
    LET m == MarshalBinary(req)
    IN  IF m.err # "nil" THEN Failure("framing", m.err)
        ELSE IF dev.werr THEN Failure("transport", "write")
        ELSE IF dev.rerr THEN Failure("transport", "read")
        ELSE LET r == UnmarshalBinary(dev.bytes)
             IN  IF r.err # "nil" THEN Failure("framing", r.err)
                 ELSE [kind |-> "ok", err |-> "nil", msg |-> <<>>, value |-> Nil,
                       rep |-> [Type |-> r.Type, Tags |-> r.Tags]]

\* the tag loop of Query keeping the first name and the first value it meets
RECURSIVE QueryScanKeepsFirst(_, _, _)
QueryScanKeepsFirst(tags, name, value) ==
    IF tags = <<>> THEN [errtag |-> Nil, name |-> name, value |-> value]
    ELSE LET t == Head(tags)
         IN  CASE t.Type = TagGetsetName ->
                      QueryScanKeepsFirst(Tail(tags), IF name = Nil THEN t.Data ELSE name, value)
               [] t.Type = TagGetsetValue ->
                      QueryScanKeepsFirst(Tail(tags), name, IF value = Nil THEN t.Data ELSE value)
               [] t.Type = TagErrorMessage ->
                      [errtag |-> t.Data, name |-> name, value |-> value]
               [] OTHER -> QueryScanKeepsFirst(Tail(tags), name, value)

\* the tag loop of Query with its two variables name and value; stops at
\* the first error tag
RECURSIVE QueryScan(_, _, _)
QueryScan(tags, name, value) ==
    IF tags = <<>> THEN [errtag |-> Nil, name |-> name, value |-> value]
    ELSE LET t == Head(tags)
         IN  CASE t.Type = TagGetsetName -> QueryScan(Tail(tags), t.Data, value)
               [] t.Type = TagGetsetValue -> QueryScan(Tail(tags), name, t.Data)
               [] t.Type = TagErrorMessage ->
                      [errtag |-> t.Data, name |-> name, value |-> value]
               [] OTHER -> QueryScan(Tail(tags), name, value)

\* Query without the comparison of the echoed name
QueryNoNameCheck(query, dev) ==
    LET ex == Execute(QueryRequest(query), dev)
    IN  IF ex.kind # "ok" THEN ex
        ELSE IF ex.rep.Type # TypeGetsetRpy THEN Failure("protocol", "expected get/set reply")
        ELSE LET sc == QueryScan(ex.rep.Tags, Nil, Nil)
             IN  IF sc.errtag # Nil THEN DeviceError(newError(sc.errtag))
                 ELSE IF sc.name = Nil \/ sc.value = Nil
                      THEN Failure("protocol", "missing query name and/or value")
                 ELSE [kind |-> "ok", err |-> "nil", msg |-> <<>>,
                       value |-> sc.value, rep |-> NoPacket]

\* Query looking at the error tag only when name or value is missing
QueryValueBeforeError(query, dev) ==
    LET queryb == strBytes(query)
        ex     == Execute(QueryRequest(query), dev)
    IN  IF ex.kind # "ok" THEN ex
        ELSE IF ex.rep.Type # TypeGetsetRpy THEN Failure("protocol", "expected get/set reply")
        ELSE LET sc == QueryScan(ex.rep.Tags, Nil, Nil)
             IN  IF sc.name # Nil /\ sc.value # Nil /\ sc.name = queryb
                 THEN [kind |-> "ok", err |-> "nil", msg |-> <<>>,
                       value |-> sc.value, rep |-> NoPacket]
                 ELSE IF sc.errtag # Nil THEN DeviceError(newError(sc.errtag))
                 ELSE IF sc.name = Nil \/ sc.value = Nil
                      THEN Failure("protocol", "missing query name and/or value")
                 ELSE Failure("protocol", "unexpected query in reply packet")

\* Query returning the value with its null terminator removed
QueryStripsValue(query, dev) ==
    LET queryb == strBytes(query)
        ex     == Execute(QueryRequest(query), dev)
    IN  IF ex.kind # "ok" THEN ex
        ELSE IF ex.rep.Type # TypeGetsetRpy THEN Failure("protocol", "expected get/set reply")
        ELSE LET sc == QueryScan(ex.rep.Tags, Nil, Nil)
             IN  IF sc.errtag # Nil THEN DeviceError(newError(sc.errtag))
                 ELSE IF sc.name = Nil \/ sc.value = Nil
                      THEN Failure("protocol", "missing query name and/or value")
                 ELSE IF sc.name # queryb
                      THEN Failure("protocol", "unexpected query in reply packet")
                 ELSE [kind |-> "ok", err |-> "nil", msg |-> <<>>,
                       value |-> bytesStr(sc.value), rep |-> NoPacket]

\* Client.Query(query) against a connection behaving as dev
Query(query, dev) ==
    LET queryb == strBytes(query)
        ex     == Execute(QueryRequest(query), dev)
    IN  IF ex.kind # "ok" THEN ex
        ELSE IF ex.rep.Type # TypeGetsetRpy THEN Failure("protocol", "expected get/set reply")
        ELSE LET sc == QueryScan(ex.rep.Tags, Nil, Nil)
             IN  IF sc.errtag # Nil THEN DeviceError(newError(sc.errtag))
                 ELSE IF sc.name = Nil \/ sc.value = Nil
                      THEN Failure("protocol", "missing query name and/or value")
                 ELSE IF sc.name # queryb
                      THEN Failure("protocol", "unexpected query in reply packet")
                 ELSE [kind |-> "ok", err |-> "nil", msg |-> <<>>,
                       value |-> sc.value, rep |-> NoPacket]

\* IsNotExist comparing the Message with the text as rendered, prefix included
IsNotExistWithPrefix(res) == res.kind = "device" /\ res.msg = errorPrefix \o unknownGetSet

\* IsNotExist(err) for the error of a Query result
IsNotExist(res) == res.kind = "device" /\ res.msg = unknownGetSet

-----------------------------------------------------------------------------
(* Query harness: one Query call, the device's reply drawn from a set *)

\* most tags in a reply the device sends
MaxReplyTags == 3

\* the query string is "a"; replies echo "a\0", "b\0" or "a" without its
\* terminator, carry the value "v\0" or an empty value, the error texts
\* "ERROR: unknown getset variable" or "x\0", or a lock key tag
ReplyTagSet ==
    [Type : {TagGetsetName}, Data : {<<97, 0>>, <<98, 0>>, <<97>>}]
    \cup [Type : {TagGetsetValue}, Data : {<<118, 0>>, <<>>}]
    \cup [Type : {TagErrorMessage}, Data : {errorPrefix \o unknownGetSet, <<120, 0>>}]
    \cup [Type : {TagGetsetLockkey}, Data : {<<1>>}]

Replies ==
    [Type : {TypeGetsetRpy}, Tags : UNION {[1..n -> ReplyTagSet] : n \in 0..MaxReplyTags}]
    \cup [Type : {TypeGetsetReq, TypeDiscoverRpy},
          Tags : UNION {[1..n -> ReplyTagSet] : n \in 0..2}]

Damaged(b) == [b EXCEPT ![Len(b)] = Xor8(@, 1)]

\* the connection delivers a reply, delivers it damaged, or fails
DeviceAnswers ==
    {[werr |-> FALSE, rerr |-> FALSE, bytes |-> MarshalBinary(p).b] : p \in Replies}
    \cup {[werr |-> FALSE, rerr |-> FALSE, bytes |-> Damaged(MarshalBinary(p).b)] :
             p \in {r \in Replies : Len(r.Tags) <= 1}}
    \cup {[werr |-> TRUE, rerr |-> FALSE, bytes |-> <<>>],
          [werr |-> FALSE, rerr |-> TRUE, bytes |-> <<>>]}

NoAnswer == [werr |-> FALSE, rerr |-> FALSE, bytes |-> <<>>]

QueryOff ==
    /\ qstep = 0 /\ qquery = <<>> /\ qdev = NoAnswer /\ qres = Failure("none", "none")

InitQuery ==
    /\ qstep = 0
    /\ qquery = <<97>>
    /\ qdev \in DeviceAnswers
    /\ qres = Failure("none", "none")

\* c.Query(qquery) runs to its return
QueryCall ==
    /\ qstep = 0
    /\ qres' = Query(qquery, qdev)
    /\ qstep' = 1
    /\ UNCHANGED <<qquery, qdev>>
    /\ QueryFrame

NextQuery ==
    \/ QueryCall

-----------------------------------------------------------------------------
(* tuner.go: Tuner.Debug; client.go: ForEachTuner *)

\* most tuners of a device, and the last index ForEachTuner may probe
MaxTuners == 4

\* strconv-style decimal digits of n, as fmt.Sprintf("%d") prints them
RECURSIVE Itoa(_)
Itoa(n) == IF n < 10 THEN <<48 + n>> ELSE Itoa(n \div 10) \o <<48 + (n % 10)>>

\* Tuner.query: path.Join("/tuner<i>/", "debug") = "/tuner<i>/debug"
TunerQuery(i) ==
    <<47, 116, 117, 110, 101, 114>> \o Itoa(i) \o <<47, 100, 101, 98, 117, 103>>

\* strings.Fields for space and tab separated text: the fields after i,
\* cur being the field under construction
RECURSIVE FieldsFrom(_, _, _)
FieldsFrom(str, i, cur) ==
    IF i > Len(str) THEN (IF cur = <<>> THEN <<>> ELSE <<cur>>)
    ELSE IF str[i] \in {32, 9}
         THEN (IF cur = <<>> THEN <<>> ELSE <<cur>>) \o FieldsFrom(str, i + 1, <<>>)
         ELSE FieldsFrom(str, i + 1, Append(cur, str[i]))

Fields(str) == FieldsFrom(str, 1, <<>>)

\* kvStrings: every field must split around "=" into exactly two parts
kvStringsOk(ss) ==
    \A k \in 1..Len(ss) : Cardinality({j \in 1..Len(ss[k]) : ss[k][j] = 61}) = 1

\* TunerDebug.parse of one status line: "nil" or the error.  Lines whose
\* first field is a known status key are converted further by parseTuner
\* and its siblings; the lines used here have other keys.
parse(str) ==
    LET ss == Fields(str)
    IN  IF Len(ss) = 0 THEN "nil"
        ELSE IF Len(ss) < 2 THEN "malformed tuner status line"
        ELSE IF ~kvStringsOk(Tail(ss)) THEN "invalid key=value pair"
        ELSE "nil"

\* bufio.Scanner with ScanLines over b: the lines after i
RECURSIVE LinesFrom(_, _, _)
LinesFrom(b, i, cur) ==
    IF i > Len(b) THEN (IF cur = <<>> THEN <<>> ELSE <<cur>>)
    ELSE IF b[i] = 10
         THEN <<cur>> \o LinesFrom(b, i + 1, <<>>)
         ELSE LinesFrom(b, i + 1, Append(cur, b[i]))

\* the loop of Debug: the first line parse rejects decides
RECURSIVE ParseLines(_)
ParseLines(lines) ==
    IF lines = <<>> THEN "nil"
    ELSE LET e == parse(bytesStr(Head(lines)))
         IN  IF e # "nil" THEN e ELSE ParseLines(Tail(lines))

\* Tuner.Debug after t.query("debug") returned q: the query's error, or
\* the parsing of its value
DebugParse(q) ==
    IF q.kind # "ok" THEN q
    ELSE LET e == ParseLines(LinesFrom(q.value, 1, <<>>))
         IN  IF e # "nil" THEN Failure("parse", e)
             ELSE [kind |-> "ok", err |-> "nil", msg |-> <<>>, value |-> q.value,
                   rep |-> NoPacket]

\* Tuner.Debug for tuner i
Debug(i, dev) == DebugParse(Query(TunerQuery(i), dev))

\* the ways the device answers the debug query of one tuner
OkAnswers == {"status", "empty"}

NotExistAnswers == {"notexist", "notexist0"}

FailAnswers == {"othererror", "malformed", "wrongname", "wrongtype", "damaged", "readerror"}

\* tags and replies the device builds
NameTag(v) == [Type |-> TagGetsetName, Data |-> v]

ValueTag(v) == [Type |-> TagGetsetValue, Data |-> v]

ErrorTag(v) == [Type |-> TagErrorMessage, Data |-> v]

GetsetRpy(tags) == [Type |-> TypeGetsetRpy, Tags |-> tags]

\* "k: a=b\0", a status line with an unknown key
StatusText == <<107, 58, 32, 97, 61, 98, 0>>

\* the reply Packet the device sends for each kind of answer
TunerReply(kind, query) ==
    CASE kind = "status" -> GetsetRpy(<<NameTag(strBytes(query)), ValueTag(StatusText)>>)
      [] kind = "empty" -> GetsetRpy(<<NameTag(strBytes(query)), ValueTag(<<0>>)>>)
      [] kind = "notexist" -> GetsetRpy(<<ErrorTag(errorPrefix \o unknownGetSet)>>)
      [] kind = "notexist0" -> GetsetRpy(<<ErrorTag(strBytes(errorPrefix \o unknownGetSet))>>)
      [] kind = "othererror" -> GetsetRpy(<<ErrorTag(strBytes(errorPrefix \o <<120>>))>>)
      [] kind = "malformed" -> GetsetRpy(<<NameTag(strBytes(query)), ValueTag(<<120, 0>>)>>)
      [] kind = "wrongname" -> GetsetRpy(<<NameTag(<<98, 0>>), ValueTag(StatusText)>>)
      [] kind = "wrongtype" -> [Type |-> TypeGetsetReq, Tags |-> <<NameTag(strBytes(query))>>]
      [] OTHER -> GetsetRpy(<<NameTag(strBytes(query)), ValueTag(<<0>>)>>)

\* what the connection does for each kind of answer
TunerAnswer(kind, query) ==
    LET b == MarshalBinary(TunerReply(kind, query)).b
    IN  CASE kind = "readerror" -> [werr |-> FALSE, rerr |-> TRUE, bytes |-> <<>>]
          [] kind = "damaged" -> [werr |-> FALSE, rerr |-> FALSE,
                                  bytes |-> [b EXCEPT ![Len(b)] = Xor8(@, 1)]]
          [] OTHER -> [werr |-> FALSE, rerr |-> FALSE, bytes |-> b]

\* the error fn returns when it fails
CallbackError == Failure("callback", "fn")

NoReturn == Failure("none", "none")

\* a nil error
NilError == Failure("nil", "nil")

TunerOff ==
    /\ fpc = "off" /\ fi = 0 /\ fprobes = <<>> /\ fvisits = <<>> /\ fans = <<>>
    /\ fcberr = FALSE /\ fret = NoReturn

\* ForEachTuner: i := 0
InitTuner ==
    /\ fpc = "probe" /\ fi = 0 /\ fprobes = <<>> /\ fvisits = <<>> /\ fans = <<>>
    /\ fcberr = FALSE /\ fret = NoReturn

\* ForEachTuner treating every failed probe as the end of the tuners
LoopAfterProbeAnyErrorEnds(r) ==
    IF r.kind = "ok"
    THEN fpc' = "callback" /\ fret' = fret
    ELSE fpc' = "done" /\ fret' = NilError

\* ForEachTuner after t.Debug() returned r: IsNotExist ends the loop with
\* nil, another error is returned, success goes on to fn(t)
LoopAfterProbe(r) ==
    IF r.kind = "ok"
    THEN fpc' = "callback" /\ fret' = fret
    ELSE IF IsNotExist(r)
         THEN fpc' = "done" /\ fret' = NilError
         ELSE fpc' = "done" /\ fret' = r

\* ForEachTuner: t := c.Tuner(i); t.Debug(), the device answering in one of
\* the ways above
TunerProbe ==
    /\ fpc = "probe"
    /\ fi <= MaxTuners
    /\ \E kind \in OkAnswers \cup NotExistAnswers \cup FailAnswers :
          /\ fans' = Append(fans, kind)
          /\ \E r \in {Debug(fi, TunerAnswer(kind, TunerQuery(fi)))} : LoopAfterProbe(r)
    /\ fprobes' = Append(fprobes, fi)
    /\ UNCHANGED <<fi, fvisits, fcberr>>
    /\ TunerFrame

\* ForEachTuner: fn(t) returns nil (then i++) or an error (then return it)
TunerCallback ==
    /\ fpc = "callback"
    /\ fvisits' = Append(fvisits, fi)
    /\ \/ /\ fi' = fi + 1
          /\ fpc' = "probe"
          /\ UNCHANGED <<fcberr, fret>>
       \/ /\ fcberr' = TRUE
          /\ fret' = CallbackError
          /\ fpc' = "done"
          /\ UNCHANGED fi
    /\ UNCHANGED <<fprobes, fans>>
    /\ TunerFrame

NextTuner ==
    \/ TunerProbe
    \/ TunerCallback

-----------------------------------------------------------------------------
(* discover.go: Discoverer.Discover, discover, newDiscoveredDevice *)

\* Discover calls made on one Discoverer
MaxDiscoverCalls == 2

\* datagrams the socket receives
MaxDatagrams == 2

\* the values of ctx.Err(): nil, context.Canceled, context.DeadlineExceeded
CtxErrs == {"nil", "Canceled", "DeadlineExceeded"}

\* the switch of Discover and discover on ctx.Err(), taking context.Canceled
\* alone for the end of discovery
IsDoneOnlyCanceled(e) == e = "Canceled"

\* case context.Canceled, context.DeadlineExceeded
IsDone(e) == e \in {"Canceled", "DeadlineExceeded"}

\* a return value of Discover or discover
Ret(kind) == [kind |-> kind, dev |-> Nil]

NoDevice == Ret("none")

\* hex.EncodeToString
HexDigit(n) == IF n < 10 THEN 48 + n ELSE 87 + n

RECURSIVE EncodeToString(_)
EncodeToString(b) ==
    IF b = <<>> THEN <<>>
    ELSE <<HexDigit(b[1] \div 16), HexDigit(b[1] % 16)>> \o EncodeToString(Tail(b))

\* url.Parse rejects a string holding an ASCII control character
UrlParseFails(b) == \E i \in 1..Len(b) : b[i] < 32 \/ b[i] = 127

\* &DiscoveredDevice{Addr: addr}; Type is kept as its four big-endian bytes
NewDevice(addr) ==
    [ID |-> <<>>, Addr |-> addr, Type |-> <<0, 0, 0, 0>>, URL |-> Nil, Tuners |-> 0]

\* DiscoveredDevice.parseTags from tag i on: [err, d]
RECURSIVE parseTags(_, _, _)
parseTags(d, tags, i) ==
    IF i > Len(tags) THEN [err |-> FALSE, d |-> d]
    ELSE LET t == tags[i] IN
         CASE t.Type = TagDeviceType ->
                IF Len(t.Data) # 4 THEN [err |-> TRUE, d |-> d]
                ELSE parseTags([d EXCEPT !.Type = t.Data], tags, i + 1)
           [] t.Type = TagDeviceId ->
                IF Len(t.Data) # 4 THEN [err |-> TRUE, d |-> d]
                ELSE parseTags([d EXCEPT !.ID = EncodeToString(t.Data)], tags, i + 1)
           [] t.Type = TagBaseUrl ->
                IF UrlParseFails(t.Data) THEN [err |-> TRUE, d |-> d]
                ELSE parseTags([d EXCEPT !.URL = t.Data], tags, i + 1)
           [] t.Type = TagTunerCount ->
                IF Len(t.Data) # 1 THEN [err |-> TRUE, d |-> d]
                ELSE parseTags([d EXCEPT !.Tuners = t.Data[1]], tags, i + 1)
           [] OTHER -> parseTags(d, tags, i + 1)

\* newDiscoveredDevice accepting a reply without a device ID
newDiscoveredDeviceNoIdCheck(addr, p) ==
    IF p.Type # TypeDiscoverRpy THEN [err |-> TRUE, d |-> NewDevice(addr)]
    ELSE LET r == parseTags(NewDevice(addr), p.Tags, 1) IN
         IF r.err THEN r
         ELSE IF r.d.Type = <<0, 0, 0, 0>> THEN [err |-> TRUE, d |-> r.d]
         ELSE r

\* newDiscoveredDevice(addr, p): [err, d]
newDiscoveredDevice(addr, p) ==
    IF p.Type # TypeDiscoverRpy THEN [err |-> TRUE, d |-> NewDevice(addr)]
    ELSE LET r == parseTags(NewDevice(addr), p.Tags, 1) IN
         IF r.err THEN r
         ELSE IF r.d.Type = <<0, 0, 0, 0>> THEN [err |-> TRUE, d |-> r.d]
         ELSE IF r.d.ID = <<>> THEN [err |-> TRUE, d |-> r.d]
         ELSE r

\* discover after ReadFrom succeeded with b[:n] from addr: the device, or a
\* retryableError
Decode(addr, b) ==
    LET p == UnmarshalBinary(b) IN
    IF p.err = "panic" THEN Ret("panic")
    ELSE IF p.err # "nil" THEN Ret("retry")
    ELSE LET r == newDiscoveredDevice(addr, [Type |-> p.Type, Tags |-> p.Tags]) IN
         IF r.err THEN Ret("retry") ELSE [kind |-> "device", dev |-> r.d]

\* the datagrams a network delivers: a discover reply of a tuner, a discover
\* reply without a device ID, a discover request, a reply damaged in transit
DeviceReplyTags ==
    <<[Type |-> TagDeviceType, Data |-> <<0, 0, 0, 1>>],
      [Type |-> TagDeviceId, Data |-> <<16, 81, 171, 205>>],
      [Type |-> TagTunerCount, Data |-> <<2>>]>>

DatagramKinds == {"device", "noid", "request", "damaged"}

\* the reply of a second device
Device2ReplyTags ==
    <<[Type |-> TagDeviceId, Data |-> <<16, 82, 0, 1>>],
      [Type |-> TagDeviceType, Data |-> <<0, 0, 0, 1>>]>>

\* a reply whose header declares one payload byte more than it carries,
\* with the checksum of what it carries
BadLengthReply ==
    LET good == MarshalBinary([Type |-> TypeDiscoverRpy, Tags |-> DeviceReplyTags]).b
        n    == Len(good) - 8
        head == PutUint16BE(TypeDiscoverRpy) \o PutUint16BE(n + 1) \o Slice(good, 4, 4 + n)
    IN  head \o ChecksumIEEE(head)

\* more of what a network delivers: the reply of a second device, replies
\* without a device type, with a device ID of three bytes, with a wrong
\* declared length, and a datagram cut to seven bytes
MoreDatagramKinds == {"device2", "notype", "shortid", "badlength", "short"}

DatagramBytes(kind) ==
    CASE kind = "device" ->
           MarshalBinary([Type |-> TypeDiscoverRpy, Tags |-> DeviceReplyTags]).b
      [] kind = "device2" ->
           MarshalBinary([Type |-> TypeDiscoverRpy, Tags |-> Device2ReplyTags]).b
      [] kind = "notype" ->
           MarshalBinary([Type |-> TypeDiscoverRpy,
                          Tags |-> <<DeviceReplyTags[2]>>]).b
      [] kind = "shortid" ->
           MarshalBinary([Type |-> TypeDiscoverRpy,
                          Tags |-> <<DeviceReplyTags[1],
                                     [Type |-> TagDeviceId, Data |-> <<16, 81, 171>>]>>]).b
      [] kind = "badlength" -> BadLengthReply
      [] kind = "short" ->
           Slice(MarshalBinary([Type |-> TypeDiscoverRpy, Tags |-> <<>>]).b, 0, 7)
      [] kind = "noid" ->
           MarshalBinary([Type |-> TypeDiscoverRpy,
                          Tags |-> <<DeviceReplyTags[1]>>]).b
      [] kind = "request" ->
           MarshalBinary([Type |-> TypeDiscoverReq,
                          Tags |-> SubSeq(DeviceReplyTags, 1, 2)]).b
      [] OTHER ->
           Damaged(MarshalBinary([Type |-> TypeDiscoverRpy,
                                  Tags |-> DeviceReplyTags]).b)

Datagram(kind) == [from |-> "192.0.2.7:65001", data |-> DatagramBytes(kind)]

NoDatagram == [from |-> "", data |-> <<>>]

DiscOff ==
    /\ dctx = "nil" /\ dsock = "closed" /\ dinbox = <<>> /\ dpc = "off"
    /\ dwatch = "none" /\ dmsgC = "none" /\ dwg = 0 /\ dbuf = NoDatagram
    /\ dpend = NoDevice /\ dret = NoDevice /\ dfound = <<>> /\ dcalls = 0
    /\ darrivals = 0 /\ dreads = 0 /\ dpre = FALSE /\ dcanAt = "none"
    /\ dlate = FALSE /\ dsent = <<>> /\ dopts = <<>>

\* the state NewDiscoverer starts from: no socket yet
BeforeNewDiscoverer ==
    /\ dctx = "nil" /\ dsock = "none" /\ dinbox = <<>> /\ dpc = "new"
    /\ dwatch = "none" /\ dmsgC = "none" /\ dwg = 0 /\ dbuf = NoDatagram
    /\ dpend = NoDevice /\ dret = NoDevice /\ dfound = <<>> /\ dcalls = 0
    /\ darrivals = 0 /\ dreads = 0 /\ dpre = FALSE /\ dcanAt = "none"
    /\ dlate = FALSE /\ dsent = <<>>

\* before NewDiscoverer() without options
InitDiscover == BeforeNewDiscoverer /\ dopts = <<>>

\* DeviceTypeWildcard as its four big-endian bytes
DeviceTypeWildcard == <<255, 255, 255, 255>>

\* DeviceIDWildcard, the string "ffffffff"
DeviceIDWildcard == <<102, 102, 102, 102, 102, 102, 102, 102>>

\* hex's reverseHexTable: the value of a hexadecimal character, 255 for any
\* other
fromHexChar(c) ==
    IF c \in 48..57 THEN c - 48
    ELSE IF c \in 97..102 THEN c - 87
    ELSE IF c \in 65..70 THEN c - 55
    ELSE 255

\* hex.DecodeString
RECURSIVE DecodeString(_)
DecodeString(str) ==
    IF str = <<>> THEN [b |-> <<>>, err |-> "nil"]
    ELSE IF Len(str) = 1
         THEN [b |-> <<>>,
               err |-> IF fromHexChar(str[1]) > 15 THEN "InvalidByteError" ELSE "ErrLength"]
    ELSE IF fromHexChar(str[1]) > 15 \/ fromHexChar(str[2]) > 15
         THEN [b |-> <<>>, err |-> "InvalidByteError"]
    ELSE LET rest == DecodeString(SubSeq(str, 3, Len(str)))
         IN  [b |-> <<16 * fromHexChar(str[1]) + fromHexChar(str[2])>> \o rest.b,
              err |-> rest.err]

\* ParseDeviceID taking a device ID of any length
ParseDeviceIDAnyLength(id) ==
    LET d == DecodeString(id)
    IN  IF d.err # "nil" THEN [idb |-> <<>>, err |-> d.err]
        ELSE [idb |-> d.b, err |-> "nil"]

\* ParseDeviceID(id)
ParseDeviceID(id) ==
    LET d == DecodeString(id)
    IN  IF d.err # "nil" THEN [idb |-> <<>>, err |-> d.err]
        ELSE IF Len(d.b) # 4 THEN [idb |-> <<>>, err |-> "device ID must be eight hexadecimal characters"]
        ELSE [idb |-> d.b, err |-> "nil"]

\* the options: DiscoverDeviceType(t), t as its four big-endian bytes, and
\* DiscoverDeviceID(id)
DiscoverDeviceType(t) == [kind |-> "DeviceType", arg |-> t]

DiscoverDeviceID(id) == [kind |-> "DeviceID", arg |-> id]

\* o(d): the option applied to the Discoverer under construction
ApplyOption(o, d) ==
    IF o.kind = "DeviceType" THEN [d EXCEPT !.deviceType = o.arg]
    ELSE LET r == ParseDeviceID(o.arg)
         IN  IF r.err # "nil" THEN [d EXCEPT !.err = r.err]
             ELSE [d EXCEPT !.deviceID = r.idb]

\* for _, o := range options, which ends at the first error
RECURSIVE ApplyOptions(_, _)
ApplyOptions(options, d) ==
    IF options = <<>> \/ d.err # "nil" THEN d
    ELSE ApplyOptions(Tail(options), ApplyOption(Head(options), d))

\* the Discoverer of NewDiscoverer after its options: the defaults, the
\* wildcard ID option in front of the caller's options
Configured(options) ==
    ApplyOptions(<<DiscoverDeviceID(DeviceIDWildcard)>> \o options,
                 [deviceType |-> DeviceTypeWildcard, deviceID |-> <<>>, err |-> "nil"])

\* mustDiscoverPacket(typ, id), typ as its four big-endian bytes
mustDiscoverPacket(typ, id) ==
    MarshalBinary([Type |-> TypeDiscoverReq,
                   Tags |-> <<[Type |-> TagDeviceType, Data |-> typ],
                              [Type |-> TagDeviceId, Data |-> id]>>]).b

\* NewDiscoverer writing the request twice
RequestWritesTwice(b) == <<b, b>>

\* the WriteToUDP calls of NewDiscoverer, line 167
RequestWrites(b) == <<b>>

\* NewDiscoverer(options...): an option fails; or ListenUDP fails; or the
\* socket is bound and WriteToUDP fails, which closes it; or the request is
\* sent and the Discoverer is returned
NewDiscoverer ==
    /\ dpc = "new"
    /\ LET d == Configured(dopts)
       IN  IF d.err # "nil"
           THEN /\ dpc' = "failed"
                /\ UNCHANGED <<dsock, dsent>>
           ELSE \/ /\ dpc' = "failed"
                   /\ UNCHANGED <<dsock, dsent>>
                \/ /\ dpc' = "failed"
                   /\ dsock' = "closed"
                   /\ UNCHANGED dsent
                \/ /\ dpc' = "idle"
                   /\ dsock' = "open"
                   /\ dsent' = dsent \o RequestWrites(mustDiscoverPacket(d.deviceType, d.deviceID))
    /\ UNCHANGED <<dctx, dinbox, dwatch, dmsgC, dwg, dbuf, dpend, dret, dfound,
                   dcalls, darrivals, dreads, dpre, dcanAt, dlate>>
    /\ DiscFrame

\* Discover(ctx) returning on a done context without closing the socket
DiscoverCallKeepsSocket ==
    /\ dpc = "idle"
    /\ dcalls < MaxDiscoverCalls
    /\ dcalls' = dcalls + 1
    /\ \E c \in CtxErrs :
          /\ dctx' = c
          /\ dpre' = (c # "nil")
          /\ IF c # "nil"
             THEN /\ dret' = IF IsDone(c) THEN Ret("EOF") ELSE Ret("ctxerr")
                  /\ dpc' = "idle"
                  /\ UNCHANGED dsock
             ELSE /\ dpc' = "start"
                  /\ UNCHANGED <<dsock, dret>>
    /\ dreads' = 0 /\ dcanAt' = "none" /\ dlate' = FALSE
    /\ UNCHANGED <<dinbox, dwatch, dmsgC, dwg, dbuf, dpend, dfound, darrivals>>
    /\ UNCHANGED dsent
    /\ DiscFrame

\* Discover(ctx), lines 192-208: the caller passes a context, possibly done
\* already; a done context closes the socket and ends the call, any other
\* enters the loop
DiscoverCall ==
    /\ dpc = "idle"
    /\ dcalls < MaxDiscoverCalls
    /\ dcalls' = dcalls + 1
    /\ \E c \in CtxErrs :
          /\ dctx' = c
          /\ dpre' = (c # "nil")
          /\ IF c # "nil"
             THEN /\ dsock' = "closed"
                  /\ dret' = IF IsDone(c) THEN Ret("EOF") ELSE Ret("ctxerr")
                  /\ dpc' = "idle"
             ELSE /\ dpc' = "start"
                  /\ UNCHANGED <<dsock, dret>>
    /\ dreads' = 0 /\ dcanAt' = "none" /\ dlate' = FALSE
    /\ UNCHANGED <<dinbox, dwatch, dmsgC, dwg, dbuf, dpend, dfound, darrivals>>
    /\ UNCHANGED dsent
    /\ DiscFrame

\* discover, lines 229-246: msgC := make(chan struct{}); wg.Add(1); go func().
\* The goroutine of the previous discover has called wg.Done(); its
\* close(msgC), if still to come, is on a channel nothing uses any more.
discoverStart ==
    /\ dpc = "start"
    /\ dmsgC' = "open"
    /\ dwg' = 1
    /\ dwatch' = "select"
    /\ dpc' = "read"
    /\ UNCHANGED <<dctx, dsock, dinbox, dbuf, dpend, dret, dfound, dcalls,
                   darrivals, dreads, dpre, dcanAt, dlate>>
    /\ UNCHANGED dsent
    /\ DiscFrame

\* d.c.ReadFrom(b) returning the datagram received last
ReadFromNewest ==
    /\ dpc = "read"
    /\ dsock = "open"
    /\ dinbox # <<>>
    /\ dbuf' = dinbox[Len(dinbox)]
    /\ dinbox' = SubSeq(dinbox, 1, Len(dinbox) - 1)
    /\ dreads' = dreads + 1
    /\ dlate' = (dlate \/ dctx # "nil")
    /\ dpc' = "notify"
    /\ UNCHANGED <<dctx, dsock, dwatch, dmsgC, dwg, dpend, dret, dfound,
                   dcalls, darrivals, dpre, dcanAt>>
    /\ UNCHANGED dsent
    /\ DiscFrame

\* d.c.ReadFrom(b) returns a datagram
ReadFromData ==
    /\ dpc = "read"
    /\ dsock = "open"
    /\ dinbox # <<>>
    /\ dbuf' = Head(dinbox)
    /\ dinbox' = Tail(dinbox)
    /\ dreads' = dreads + 1
    /\ dlate' = (dlate \/ dctx # "nil")
    /\ dpc' = "notify"
    /\ UNCHANGED <<dctx, dsock, dwatch, dmsgC, dwg, dpend, dret, dfound,
                   dcalls, darrivals, dpre, dcanAt>>
    /\ UNCHANGED dsent
    /\ DiscFrame

\* d.c.ReadFrom(b) on a closed socket returns an error
ReadFromClosed ==
    /\ dpc = "read"
    /\ dsock = "closed"
    /\ dreads' = dreads + 1
    /\ dpc' = "readerr"
    /\ UNCHANGED <<dctx, dsock, dinbox, dwatch, dmsgC, dwg, dbuf, dpend, dret,
                   dfound, dcalls, darrivals, dpre, dcanAt, dlate>>
    /\ UNCHANGED dsent
    /\ DiscFrame

\* d.c.ReadFrom(b) on the open socket returns an error of the network
ReadFromFails ==
    /\ dpc = "read"
    /\ dsock = "open"
    /\ dreads' = dreads + 1
    /\ dpc' = "readerr"
    /\ UNCHANGED <<dctx, dsock, dinbox, dwatch, dmsgC, dwg, dbuf, dpend, dret,
                   dfound, dcalls, darrivals, dpre, dcanAt, dlate>>
    /\ UNCHANGED dsent
    /\ DiscFrame

\* discover taking every read error for an error of the listener, without
\* looking at the context
discoverReadErrIgnoresCtx ==
    /\ dpc = "readerr"
    /\ dpend' = dpend /\ dpc' = "notifyerr"
    /\ UNCHANGED <<dctx, dsock, dinbox, dwatch, dmsgC, dwg, dbuf, dret, dfound,
                   dcalls, darrivals, dreads, dpre, dcanAt, dlate>>
    /\ UNCHANGED dsent
    /\ DiscFrame

\* lines 253-260: cerr := ctx.Err(); a done context returns io.EOF, anything
\* else goes on to notify the goroutine (cerr is nil from here on)
discoverReadErr ==
    /\ dpc = "readerr"
    /\ IF IsDone(dctx)
       THEN dpend' = Ret("EOF") /\ dpc' = "wait"
       ELSE dpend' = dpend /\ dpc' = "notifyerr"
    /\ UNCHANGED <<dctx, dsock, dinbox, dwatch, dmsgC, dwg, dbuf, dret, dfound,
                   dcalls, darrivals, dreads, dpre, dcanAt, dlate>>
    /\ UNCHANGED dsent
    /\ DiscFrame

\* msgC <- struct{}{} of lines 265 and 279 meeting case <-msgC of line 244
Handoff ==
    /\ dpc \in {"notify", "notifyerr"}
    /\ dwatch = "select"
    /\ dmsgC = "open"
    /\ dpc' = IF dpc = "notify" THEN "decode" ELSE "closeerr"
    /\ dwatch' = "wgdone"
    /\ UNCHANGED <<dctx, dsock, dinbox, dmsgC, dwg, dbuf, dpend, dret, dfound,
                   dcalls, darrivals, dreads, dpre, dcanAt, dlate>>
    /\ UNCHANGED dsent
    /\ DiscFrame

\* msgC <- struct{}{} of lines 265 and 279 after close(msgC): the send
\* panics; the deferred wg.Wait() returns at once, the goroutine having called
\* wg.Done() before it closed msgC, and the panic leaves Discover
SendOnClosed ==
    /\ dpc \in {"notify", "notifyerr"}
    /\ dmsgC = "closed"
    /\ dpc' = "panic"
    /\ dret' = Ret("panic")
    /\ UNCHANGED <<dctx, dsock, dinbox, dwatch, dmsgC, dwg, dbuf, dpend, dfound,
                   dcalls, darrivals, dreads, dpre, dcanAt, dlate>>
    /\ UNCHANGED dsent
    /\ DiscFrame

\* lines 266-274: _ = d.c.Close(); cerr being nil, return nil, err
discoverCloseErr ==
    /\ dpc = "closeerr"
    /\ dsock' = "closed"
    /\ dpend' = Ret("listener")
    /\ dpc' = "wait"
    /\ UNCHANGED <<dctx, dinbox, dwatch, dmsgC, dwg, dbuf, dret, dfound, dcalls,
                   darrivals, dreads, dpre, dcanAt, dlate>>
    /\ UNCHANGED dsent
    /\ DiscFrame

\* lines 285-297: UnmarshalBinary(b[:n]) and newDiscoveredDevice
discoverDecode ==
    /\ dpc = "decode"
    /\ dpend' = Decode(dbuf.from, dbuf.data)
    /\ dpc' = "wait"
    /\ UNCHANGED <<dctx, dsock, dinbox, dwatch, dmsgC, dwg, dbuf, dret, dfound,
                   dcalls, darrivals, dreads, dpre, dcanAt, dlate>>
    /\ UNCHANGED dsent
    /\ DiscFrame

\* discover returning without its deferred wg.Wait()
discoverReturnNoWait ==
    /\ dpc = "wait"
    /\ IF dpend.kind = "retry"
       THEN dpc' = "start" /\ UNCHANGED <<dret, dfound>>
       ELSE /\ dpc' = "idle"
            /\ dret' = dpend
            /\ dfound' = IF dpend.kind = "device" THEN Append(dfound, dpend.dev)
                         ELSE dfound
    /\ dpend' = NoDevice
    /\ UNCHANGED <<dctx, dsock, dinbox, dwatch, dmsgC, dwg, dbuf, dcalls,
                   darrivals, dreads, dpre, dcanAt, dlate>>
    /\ UNCHANGED dsent
    /\ DiscFrame

\* the deferred wg.Wait() of line 234, then the loop of Discover, lines
\* 210-224: a retryableError calls discover again, anything else is returned
discoverReturn ==
    /\ dpc = "wait"
    /\ dwg = 0
    /\ IF dpend.kind = "retry"
       THEN dpc' = "start" /\ UNCHANGED <<dret, dfound>>
       ELSE /\ dpc' = "idle"
            /\ dret' = dpend
            /\ dfound' = IF dpend.kind = "device" THEN Append(dfound, dpend.dev)
                         ELSE dfound
    /\ dpend' = NoDevice
    /\ UNCHANGED <<dctx, dsock, dinbox, dwatch, dmsgC, dwg, dbuf, dcalls,
                   darrivals, dreads, dpre, dcanAt, dlate>>
    /\ UNCHANGED dsent
    /\ DiscFrame

\* the goroutine, lines 241-243: case <-ctx.Done(): _ = d.c.Close()
WatchCancel ==
    /\ dwatch = "select"
    /\ dctx # "nil"
    /\ dsock' = "closed"
    /\ dwatch' = "wgdone"
    /\ UNCHANGED <<dctx, dinbox, dpc, dmsgC, dwg, dbuf, dpend, dret, dfound,
                   dcalls, darrivals, dreads, dpre, dcanAt, dlate>>
    /\ UNCHANGED dsent
    /\ DiscFrame

\* the goroutine, line 238: defer wg.Done(), the first of its deferred calls
WatchDone ==
    /\ dwatch = "wgdone"
    /\ dwg' = dwg - 1
    /\ dwatch' = "closemsg"
    /\ UNCHANGED <<dctx, dsock, dinbox, dpc, dmsgC, dbuf, dpend, dret, dfound,
                   dcalls, darrivals, dreads, dpre, dcanAt, dlate>>
    /\ UNCHANGED dsent
    /\ DiscFrame

\* the goroutine, line 237: defer close(msgC), the last of its deferred calls
WatchCloseMsgC ==
    /\ dwatch = "closemsg"
    /\ dmsgC' = "closed"
    /\ dwatch' = "exited"
    /\ UNCHANGED <<dctx, dsock, dinbox, dpc, dwg, dbuf, dpend, dret, dfound,
                   dcalls, darrivals, dreads, dpre, dcanAt, dlate>>
    /\ UNCHANGED dsent
    /\ DiscFrame

\* the caller cancels the context of its latest call, or its deadline passes
Cancel ==
    /\ dcalls > 0
    /\ dctx = "nil"
    /\ dpc # "panic"
    /\ \E c \in CtxErrs \ {"nil"} : dctx' = c
    /\ dcanAt' = dpc
    /\ UNCHANGED <<dsock, dinbox, dpc, dwatch, dmsgC, dwg, dbuf, dpend, dret,
                   dfound, dcalls, darrivals, dreads, dpre, dlate>>
    /\ UNCHANGED dsent
    /\ DiscFrame

\* the open socket receives a datagram
Arrive ==
    /\ dsock = "open"
    /\ darrivals < MaxDatagrams
    /\ \E kind \in DatagramKinds : dinbox' = Append(dinbox, Datagram(kind))
    /\ darrivals' = darrivals + 1
    /\ UNCHANGED <<dctx, dsock, dpc, dwatch, dmsgC, dwg, dbuf, dpend, dret,
                   dfound, dcalls, dreads, dpre, dcanAt, dlate>>
    /\ UNCHANGED dsent
    /\ DiscFrame

\* the open socket receives a datagram, of any of the kinds above
ArriveAny ==
    /\ dsock = "open"
    /\ darrivals < MaxDatagrams
    /\ \E kind \in DatagramKinds \cup MoreDatagramKinds :
          dinbox' = Append(dinbox, Datagram(kind))
    /\ darrivals' = darrivals + 1
    /\ UNCHANGED <<dctx, dsock, dpc, dwatch, dmsgC, dwg, dbuf, dpend, dret,
                   dfound, dcalls, dreads, dpre, dcanAt, dlate>>
    /\ UNCHANGED dsent
    /\ DiscFrame

\* the steps of the two goroutines that wait for nothing but each other and
\* the scheduler (a ReadFrom that fails on the open socket and the arrival of
\* a datagram are up to the network; the decoding step is left out, nothing
\* below depends on its being taken)
DiscoverSteps ==
    \/ discoverStart
    \/ ReadFromData
    \/ ReadFromClosed
    \/ discoverReadErr
    \/ Handoff
    \/ SendOnClosed
    \/ discoverCloseErr
    \/ discoverReturn
    \/ WatchCancel
    \/ WatchDone
    \/ WatchCloseMsgC

NextDiscover ==
    \/ NewDiscoverer
    \/ DiscoverCall
    \/ discoverStart
    \/ ReadFromData
    \/ ReadFromClosed
    \/ ReadFromFails
    \/ discoverReadErr
    \/ Handoff
    \/ SendOnClosed
    \/ discoverCloseErr
    \/ discoverDecode
    \/ discoverReturn
    \/ WatchCancel
    \/ WatchDone
    \/ WatchCloseMsgC
    \/ Cancel
    \/ Arrive

\* the same, on a network delivering every kind of datagram
NextDiscoverAny ==
    \/ NewDiscoverer
    \/ DiscoverCall
    \/ discoverStart
    \/ ReadFromData
    \/ ReadFromClosed
    \/ ReadFromFails
    \/ discoverReadErr
    \/ Handoff
    \/ SendOnClosed
    \/ discoverCloseErr
    \/ discoverDecode
    \/ discoverReturn
    \/ WatchCancel
    \/ WatchDone
    \/ WatchCloseMsgC
    \/ Cancel
    \/ ArriveAny

\* most options handed to NewDiscoverer
MaxOptions == 2

\* device ID strings: "ffffffff", "FFFFFFFF", "0123abCD"; of 0, 1, 6, 7, 9
\* and 10 hexadecimal characters; and of 8 characters, one of them 'g'
IdStrings ==
    {[i \in 1..n |-> 102] : n \in {0, 1, 6, 7, 8, 9, 10}}
    \cup {[i \in 1..8 |-> 70],
          <<48, 49, 50, 51, 97, 98, 67, 68>>,
          <<103, 102, 102, 102, 102, 102, 102, 102>>,
          <<102, 102, 102, 102, 102, 102, 102, 103>>}

\* DeviceTypeTuner and DeviceTypeStorage as their four big-endian bytes
DeviceTypes == {<<0, 0, 0, 1>>, <<0, 0, 0, 5>>}

Options ==
    {DiscoverDeviceID(id) : id \in IdStrings}
    \cup {DiscoverDeviceType(t) : t \in DeviceTypes}

OptionLists == UNION {[1..n -> Options] : n \in 0..MaxOptions}

\* before NewDiscoverer(options...)
InitDiscoverOptions == BeforeNewDiscoverer /\ dopts \in OptionLists

NextDiscoverOptions == NewDiscoverer

-----------------------------------------------------------------------------
(* IsNotExist harness: one error, from Query or nil, handed to IsNotExist *)

\* n copies of str, one after the other
RECURSIVE Repeat(_, _)
Repeat(str, n) == IF n = 0 THEN <<>> ELSE str \o Repeat(str, n - 1)

\* message bodies a device sends: the sentinel, the sentinel cut short or
\* extended, another text, "ERROR:" without its space, nothing
ErrorBodies ==
    {unknownGetSet,
     SubSeq(unknownGetSet, 1, Len(unknownGetSet) - 1),
     unknownGetSet \o <<115>>,
     <<120>>,
     SubSeq(errorPrefix, 1, 6) \o unknownGetSet,
     <<>>}

\* the data of an error tag: the body behind no, one or two prefixes and
\* before no, one or two null bytes
ErrorTexts ==
    {Repeat(errorPrefix, k) \o body \o Repeat(<<0>>, z) :
        k \in 0..2, body \in ErrorBodies, z \in 0..2}

\* where an error comes from: no error at all, a failed Write or Read, a
\* damaged frame, a reply of another packet type, a reply without a value,
\* a reply naming another variable, a reply with an error tag
ErrorSources == {"nil", "write", "read", "damaged", "wrongtype", "missing", "wrongname", "tag"}

\* what the connection does for each source
SourceAnswer(src, text, query) ==
    LET reply == CASE src = "wrongtype" ->
                        [Type |-> TypeGetsetReq, Tags |-> <<NameTag(strBytes(query))>>]
                   [] src = "missing" -> GetsetRpy(<<NameTag(strBytes(query))>>)
                   [] src = "wrongname" ->
                        GetsetRpy(<<NameTag(<<98, 0>>), ValueTag(<<118, 0>>)>>)
                   [] src = "tag" -> GetsetRpy(<<ErrorTag(text)>>)
                   [] OTHER -> GetsetRpy(<<NameTag(strBytes(query)), ValueTag(<<118, 0>>)>>)
        b     == MarshalBinary(reply).b
    IN  CASE src = "write" -> [werr |-> TRUE, rerr |-> FALSE, bytes |-> <<>>]
          [] src = "read" -> [werr |-> FALSE, rerr |-> TRUE, bytes |-> <<>>]
          [] src = "damaged" -> [werr |-> FALSE, rerr |-> FALSE, bytes |-> Damaged(b)]
          [] OTHER -> [werr |-> FALSE, rerr |-> FALSE, bytes |-> b]

NotExistOff ==
    /\ epc = "off" /\ esrc = "nil" /\ etext = <<>> /\ eerr = NoReturn /\ eans = FALSE

InitNotExist ==
    /\ epc = "start" /\ esrc = "nil" /\ etext = <<>> /\ eerr = NoReturn /\ eans = FALSE

\* _, err := c.Query("a"), or err := nil
NotExistQuery ==
    /\ epc = "start"
    /\ \E src \in ErrorSources :
          \E text \in IF src = "tag" THEN ErrorTexts ELSE {<<>>} :
             /\ esrc' = src
             /\ etext' = text
             /\ eerr' = IF src = "nil" THEN NilError
                        ELSE Query(<<97>>, SourceAnswer(src, text, <<97>>))
    /\ epc' = "returned"
    /\ UNCHANGED eans
    /\ NotExistFrame

\* IsNotExist(err)
NotExistCheck ==
    /\ epc = "returned"
    /\ eans' = IsNotExist(eerr)
    /\ epc' = "checked"
    /\ UNCHANGED <<esrc, etext, eerr>>
    /\ NotExistFrame

NextNotExist ==
    \/ NotExistQuery
    \/ NotExistCheck

-----------------------------------------------------------------------------
(* Codec harness *)

\* longest payload of the hand-built wire buffers
MaxPayload == 3

\* most tags in a Packet handed to MarshalBinary
MaxTags == 2

\* bytes the hand-built payloads are made of: tag types, one-byte lengths
\* 0..2 and the two-byte-form first bytes 0x80, 0x81
WireBytes == {0, 1, 2, 128, 129}

\* data lengths of the tags handed to MarshalBinary, on both sides of
\* largeTagLength
DataLens == {0, 127, 128, 130}

Fill(n) == [i \in 1..n |-> (7 * i) % 256]

CodecTags == [Type : {TagGetsetName, TagGetsetValue}, Data : {Fill(n) : n \in DataLens}]

Packets ==
    [Type : {TypeGetsetReq, TypeGetsetRpy},
     Tags : UNION {[1..n -> CodecTags] : n \in 0..MaxTags}]

\* a buffer laid out as a packet: type, declared payload length, payload and
\* either the right checksum or one with a flipped bit
Frame(typ, declared, payload, okCrc) ==
    LET head == PutUint16BE(typ) \o PutUint16BE(declared) \o payload
        c    == ChecksumIEEE(head)
    IN  head \o (IF okCrc THEN c ELSE <<Xor8(c[1], 1), c[2], c[3], c[4]>>)

Payloads == UNION {[1..n -> WireBytes] : n \in 0..MaxPayload}

Wires ==
    {Frame(t, Len(pl) + d, pl, ok) :
        t \in {TypeGetsetRpy}, d \in {0, 1}, pl \in Payloads, ok \in BOOLEAN}
    \cup {Frame(TypeGetsetRpy, Len(pl) - 1, pl, TRUE) : pl \in Payloads \ {<<>>}}
    \cup {[i \in 1..n |-> 0] : n \in 0..7}
    \cup {MarshalBinary(p).b : p \in Packets}

CodecOff ==
    /\ cmode = "off" /\ cstep = 0 /\ cdata = <<>> /\ cpkt = NoPacket
    /\ cdata2 = <<>> /\ cpkt2 = NoPacket /\ cerr = "nil"

InitCodec ==
    /\ cmode \in {"decode", "encode"}
    /\ cstep = 0
    /\ cerr = "nil"
    /\ cdata2 = <<>>
    /\ cpkt2 = NoPacket
    /\ IF cmode = "decode"
       THEN cdata \in Wires /\ cpkt = NoPacket
       ELSE cdata = <<>> /\ cpkt \in Packets

\* Fuzz: p.UnmarshalBinary(data)
FuzzUnmarshal ==
    /\ cmode = "decode" /\ cstep = 0
    /\ LET r == UnmarshalBinary(cdata)
       IN  /\ cpkt' = [Type |-> r.Type, Tags |-> r.Tags]
           /\ cerr' = r.err
    /\ cstep' = 1
    /\ UNCHANGED <<cmode, cdata, cdata2, cpkt2>>
    /\ CodecFrame

\* Fuzz: p.MarshalBinary() after a successful decode
FuzzMarshal ==
    /\ cmode = "decode" /\ cstep = 1 /\ cerr = "nil"
    /\ LET m == MarshalBinary(cpkt)
       IN  /\ cdata2' = m.b
           /\ cerr' = m.err
    /\ cstep' = 2
    /\ UNCHANGED <<cmode, cdata, cpkt, cpkt2>>
    /\ CodecFrame

\* p.MarshalBinary() of a constructed Packet
EncodeMarshal ==
    /\ cmode = "encode" /\ cstep = 0
    /\ LET m == MarshalBinary(cpkt)
       IN  /\ cdata' = m.b
           /\ cerr' = m.err
    /\ cstep' = 1
    /\ UNCHANGED <<cmode, cpkt, cdata2, cpkt2>>
    /\ CodecFrame

\* UnmarshalBinary of the encoded bytes into a fresh Packet
EncodeUnmarshal ==
    /\ cmode = "encode" /\ cstep = 1 /\ cerr = "nil"
    /\ LET r == UnmarshalBinary(cdata)
       IN  /\ cpkt2' = [Type |-> r.Type, Tags |-> r.Tags]
           /\ cerr' = r.err
    /\ cstep' = 2
    /\ UNCHANGED <<cmode, cdata, cpkt, cdata2>>
    /\ CodecFrame

\* most tags in a Packet whose encoding gets a bit flipped
MaxFlipTags == 2

\* the Packet of two four-byte tags
ScenarioPacket ==
    [Type |-> TypeDiscoverReq,
     Tags |-> <<[Type |-> TagDeviceType, Data |-> <<0, 0, 0, 1>>],
                [Type |-> TagDeviceId, Data |-> <<255, 255, 255, 255>>]>>]

FlipTags == [Type : {TagGetsetName, TagGetsetValue}, Data : {<<>>, <<7, 14>>}]

\* the Packets whose encodings are damaged: small ones, the one above, and
\* one with a two-byte tag length field
FlipPackets ==
    [Type : {TypeGetsetReq, TypeGetsetRpy},
     Tags : UNION {[1..n -> FlipTags] : n \in 0..MaxFlipTags}]
    \cup {ScenarioPacket,
          [Type |-> TypeGetsetRpy, Tags |-> <<[Type |-> TagGetsetValue, Data |-> Fill(128)]>>]}

\* b with bit k of its byte i (counted from 0) inverted
FlipBitAt(b, i, k) == [b EXCEPT ![i + 1] = Xor8(@, 2 ^ k)]

InitFlip ==
    /\ cmode = "flip"
    /\ cstep = 0
    /\ cerr = "nil"
    /\ cdata = <<>>
    /\ cdata2 = <<>>
    /\ cpkt \in FlipPackets
    /\ cpkt2 = NoPacket

\* p.MarshalBinary() of a constructed Packet
FlipMarshal ==
    /\ cmode = "flip" /\ cstep = 0
    /\ LET m == MarshalBinary(cpkt)
       IN  /\ cdata' = m.b
           /\ cerr' = m.err
    /\ cstep' = 1
    /\ UNCHANGED <<cmode, cpkt, cdata2, cpkt2>>
    /\ CodecFrame

\* on the way, one bit in front of the checksum is inverted
FlipBit ==
    /\ cmode = "flip" /\ cstep = 1 /\ cerr = "nil"
    /\ \E i \in 0..(Len(cdata) - 5), k \in 0..7 : cdata2' = FlipBitAt(cdata, i, k)
    /\ cstep' = 2
    /\ UNCHANGED <<cmode, cdata, cpkt, cpkt2, cerr>>
    /\ CodecFrame

\* UnmarshalBinary of the damaged bytes into a fresh Packet
FlipUnmarshal ==
    /\ cmode = "flip" /\ cstep = 2
    /\ LET r == UnmarshalBinary(cdata2)
       IN  /\ cpkt2' = [Type |-> r.Type, Tags |-> r.Tags]
           /\ cerr' = r.err
    /\ cstep' = 3
    /\ UNCHANGED <<cmode, cdata, cpkt, cdata2>>
    /\ CodecFrame

NextFlip ==
    \/ FlipMarshal
    \/ FlipBit
    \/ FlipUnmarshal

\* a Packet of two tags of the largest data length of the two-byte form
LargePacket ==
    [Type |-> TypeGetsetRpy,
     Tags |-> <<[Type |-> TagGetsetName, Data |-> Fill(32767)],
                [Type |-> TagGetsetValue, Data |-> Fill(32767)]>>]

\* the Packets whose encoding is laid out
LayoutPackets == Packets \cup {ScenarioPacket, LargePacket}

InitLayout ==
    /\ cmode = "layout"
    /\ cstep = 0
    /\ cerr = "nil"
    /\ cdata = <<>>
    /\ cdata2 = <<>>
    /\ cpkt \in LayoutPackets
    /\ cpkt2 = NoPacket

\* p.MarshalBinary() of a constructed Packet
LayoutMarshal ==
    /\ cmode = "layout" /\ cstep = 0
    /\ LET m == MarshalBinary(cpkt)
       IN  /\ cdata' = m.b
           /\ cerr' = m.err
    /\ cstep' = 1
    /\ UNCHANGED <<cmode, cpkt, cdata2, cpkt2>>
    /\ CodecFrame

NextLayout == LayoutMarshal

NextCodec ==
    \/ FuzzUnmarshal
    \/ FuzzMarshal
    \/ EncodeMarshal
    \/ EncodeUnmarshal

-----------------------------------------------------------------------------
(* Tag length harness: one length through writeTagLength and readTagLength *)

\* the largest length the two-byte form holds: 7 bits in the first byte and
\* 8 in the second
maxTagLength == 32767

NoWrite == [b |-> <<0, 0>>, consumed |-> 0, err |-> "nil"]

NoRead == [length |-> 0, consumed |-> 0, err |-> "nil"]

LenOff == lpc = "off" /\ ln = 0 /\ lw = NoWrite /\ lr = NoRead

InitLen ==
    /\ lpc = "write"
    /\ ln \in 0..maxTagLength
    /\ lw = NoWrite
    /\ lr = NoRead

\* writeTagLength(n, b[i:i+2]) on a window of a freshly made buffer
LenWrite ==
    /\ lpc = "write"
    /\ lw' = writeTagLength(ln, <<0, 0>>)
    /\ lpc' = "read"
    /\ UNCHANGED <<ln, lr>>
    /\ LenFrame

\* readTagLength(b[i:i+2]) on the window just written
LenRead ==
    /\ lpc = "read"
    /\ lr' = readTagLength(lw.b)
    /\ lpc' = "done"
    /\ UNCHANGED <<ln, lw>>
    /\ LenFrame

NextLen ==
    \/ LenWrite
    \/ LenRead

-----------------------------------------------------------------------------
(* handler.go: handler.ServeHTTP *)

\* Strings are sequences of characters.

\* most requests the server is sent
MaxRequests == 2

\* most characters in a target parameter
MaxTargetLen == 3

\* the characters targets are made of: a letter standing for any character
\* of a host or a port, the colon and the brackets of an IPv6 literal
TargetChars == {"h", ":", "[", "]"}

hdhomerunPort == <<"6", "5", "0", "0", "1">>

StatusOK == 200
StatusBadRequest == 400
StatusInternalServerError == 500

Targets == UNION {[1..n -> TargetChars] : n \in 0..MaxTargetLen}

\* a request without a target parameter, or with one
Requests ==
    {[has |-> FALSE, target |-> <<>>]} \cup [has : {TRUE}, target : Targets]

\* r.URL.Query().Get("target"): "" when the parameter is missing
Get(req) == IF req.has THEN req.target ELSE <<>>

Contains(str, c) == \E i \in 1..Len(str) : str[i] = c

\* the 0-based index of the last c in str, -1 when there is none
LastIndex(str, c) ==
    IF Contains(str, c)
    THEN (CHOOSE i \in 1..Len(str) :
              str[i] = c /\ \A j \in (i + 1)..Len(str) : str[j] # c) - 1
    ELSE -1

\* the 0-based index of the first c in str, -1 when there is none
IndexByte(str, c) ==
    IF Contains(str, c)
    THEN (CHOOSE i \in 1..Len(str) :
              str[i] = c /\ \A j \in 1..(i - 1) : str[j] # c) - 1
    ELSE -1

AddrError(why) == [host |-> <<>>, port |-> <<>>, err |-> why]

\* net.SplitHostPort
SplitHostPort(hostport) ==
    LET i   == LastIndex(hostport, ":")
        end == IndexByte(hostport, "]")
        br  == hostport[1] = "["
        \* the first error of the bracketed branch, "nil" when there is none
        berr == IF end < 0 THEN "missing ']' in address"
                ELSE IF end + 1 = Len(hostport) THEN "missing port in address"
                ELSE IF end + 1 = i THEN "nil"
                ELSE IF hostport[end + 2] = ":" THEN "too many colons in address"
                ELSE "missing port in address"
        host == IF br THEN Slice(hostport, 1, end) ELSE Slice(hostport, 0, i)
        j    == IF br THEN 1 ELSE 0
        k    == IF br THEN end + 1 ELSE 0
    IN  IF i < 0 THEN AddrError("missing port in address")
        ELSE IF br /\ berr # "nil" THEN AddrError(berr)
        ELSE IF ~br /\ Contains(host, ":") THEN AddrError("too many colons in address")
        ELSE IF Contains(Slice(hostport, j, Len(hostport)), "[")
             THEN AddrError("unexpected '[' in address")
        ELSE IF Contains(Slice(hostport, k, Len(hostport)), "]")
             THEN AddrError("unexpected ']' in address")
        ELSE [host |-> host,
              port |-> Slice(hostport, i + 1, Len(hostport)),
              err |-> "nil"]

\* net.JoinHostPort: a host with a colon goes into brackets
JoinHostPort(host, port) ==
    IF Contains(host, ":")
    THEN <<"[">> \o host \o <<"]", ":">> \o port
    ELSE host \o <<":">> \o port

\* the address ServeHTTP dials for a non-empty target
Addr(target) ==
    LET sp == SplitHostPort(target)
    IN  IF sp.err # "nil"
        THEN JoinHostPort(target, hdhomerunPort)
        ELSE JoinHostPort(sp.host, sp.port)

HandlerOff ==
    /\ hpc = "off" /\ hreq = [has |-> FALSE, target |-> <<>>] /\ haddr = <<>>
    /\ hdials = <<>> /\ hclient = "none" /\ hcalls = <<>> /\ hcloses = 0
    /\ hfail = "none" /\ hcode = 0 /\ hserved = 0

\* NewHandler(dial), the server waiting for its first request
InitHandler ==
    /\ hpc = "idle" /\ hreq = [has |-> FALSE, target |-> <<>>] /\ haddr = <<>>
    /\ hdials = <<>> /\ hclient = "none" /\ hcalls = <<>> /\ hcloses = 0
    /\ hfail = "none" /\ hcode = 0 /\ hserved = 0

\* a request arrives and ServeHTTP is called for it; what is recorded about
\* the request before starts afresh
HandlerRequest ==
    /\ hpc = "idle"
    /\ hserved < MaxRequests
    /\ \E req \in Requests : hreq' = req
    /\ haddr' = <<>>
    /\ hdials' = <<>>
    /\ hclient' = "none"
    /\ hcalls' = <<>>
    /\ hcloses' = 0
    /\ hfail' = "none"
    /\ hcode' = 0
    /\ hpc' = "target"
    /\ UNCHANGED hserved
    /\ HandlerFrame

\* ServeHTTP going on to dial whatever the target parameter holds
HandlerTargetUnchecked ==
    /\ hpc = "target"
    /\ haddr' = Addr(Get(hreq))
    /\ hpc' = "dial"
    /\ UNCHANGED <<hcode, hserved>>
    /\ UNCHANGED <<hreq, hdials, hclient, hcalls, hcloses, hfail>>
    /\ HandlerFrame

\* ServeHTTP up to the dial: the target parameter and the address
HandlerTarget ==
    /\ hpc = "target"
    /\ IF Get(hreq) = <<>>
       THEN /\ hcode' = StatusBadRequest
            /\ hserved' = hserved + 1
            /\ hpc' = "idle"
            /\ UNCHANGED haddr
       ELSE /\ haddr' = Addr(Get(hreq))
            /\ hpc' = "dial"
            /\ UNCHANGED <<hcode, hserved>>
    /\ UNCHANGED <<hreq, hdials, hclient, hcalls, hcloses, hfail>>
    /\ HandlerFrame

\* c, err := h.dial(addr), the dial function succeeding or not
HandlerDial ==
    /\ hpc = "dial"
    /\ hdials' = Append(hdials, haddr)
    /\ \E ok \in BOOLEAN :
        IF ok
        THEN /\ hclient' = "open"
             /\ hpc' = "model"
             /\ UNCHANGED <<hfail, hcode, hserved>>
        ELSE /\ hfail' = "dial"
             /\ hcode' = StatusInternalServerError
             /\ hserved' = hserved + 1
             /\ hpc' = "idle"
             /\ UNCHANGED hclient
    /\ UNCHANGED <<hreq, haddr, hcalls, hcloses>>
    /\ HandlerFrame

\* metrics.ServeHTTP gathering: collector.Collect calls c.d.Model()
HandlerModel ==
    /\ hpc = "model"
    /\ hcalls' = Append(hcalls, "Model")
    /\ \E ok \in BOOLEAN :
        IF ok
        THEN hpc' = "tuners" /\ UNCHANGED hfail
        ELSE hpc' = "respond" /\ hfail' = "model"
    /\ UNCHANGED <<hreq, haddr, hdials, hclient, hcloses, hcode, hserved>>
    /\ HandlerFrame

\* collector.Collect calls c.d.ForEachTuner(...)
HandlerTuners ==
    /\ hpc = "tuners"
    /\ hcalls' = Append(hcalls, "ForEachTuner")
    /\ \E ok \in BOOLEAN : hfail' = IF ok THEN "none" ELSE "tuners"
    /\ hpc' = "respond"
    /\ UNCHANGED <<hreq, haddr, hdials, hclient, hcloses, hcode, hserved>>
    /\ HandlerFrame

\* metrics.ServeHTTP writes the response: the metrics, or with the default
\* HandlerOpts an error status when a collected metric is invalid
HandlerRespond ==
    /\ hpc = "respond"
    /\ hcode' = IF hfail = "none" THEN StatusOK ELSE StatusInternalServerError
    /\ hpc' = "close"
    /\ UNCHANGED <<hreq, haddr, hdials, hclient, hcalls, hcloses, hfail, hserved>>
    /\ HandlerFrame

\* ServeHTTP returning with the Client closed only after a scrape that
\* succeeded
HandlerCloseOnSuccess ==
    /\ hpc = "close"
    /\ hclient' = IF hfail = "none" THEN "closed" ELSE hclient
    /\ hcloses' = IF hfail = "none" THEN hcloses + 1 ELSE hcloses
    /\ hserved' = hserved + 1
    /\ hpc' = "idle"
    /\ UNCHANGED <<hreq, haddr, hdials, hcalls, hfail, hcode>>
    /\ HandlerFrame

\* the deferred c.Close() as ServeHTTP returns
HandlerClose ==
    /\ hpc = "close"
    /\ hclient' = "closed"
    /\ hcloses' = hcloses + 1
    /\ hserved' = hserved + 1
    /\ hpc' = "idle"
    /\ UNCHANGED <<hreq, haddr, hdials, hcalls, hfail, hcode>>
    /\ HandlerFrame

NextHandler ==
    \/ HandlerRequest
    \/ HandlerTarget
    \/ HandlerDial
    \/ HandlerModel
    \/ HandlerTuners
    \/ HandlerRespond
    \/ HandlerClose

-----------------------------------------------------------------------------
(* Reply tag harness: one decoded reply handed to its consumer, Query for a
   get/set reply and newDiscoveredDevice for a discover reply *)

\* most tags in a reply
MaxConsumerTags == 4

\* name "a" and "b", two values, an error message
GetsetTags ==
    [Type : {TagGetsetName}, Data : {<<97, 0>>, <<98, 0>>}]
    \cup [Type : {TagGetsetValue}, Data : {<<118, 0>>, <<119, 0>>}]
    \cup [Type : {TagErrorMessage}, Data : {<<120, 0>>}]

\* device types tuner, storage, zero and one of a single byte; device IDs,
\* one of three bytes; base URLs "h", "i" and a line feed; tuner counts 2
\* and one of no bytes
DiscoverTags ==
    [Type : {TagDeviceType}, Data : {<<0, 0, 0, 1>>, <<0, 0, 0, 5>>, <<0, 0, 0, 0>>, <<1>>}]
    \cup [Type : {TagDeviceId}, Data : {<<16, 81, 171, 205>>, <<16, 82, 0, 1>>, <<1, 2, 3>>}]
    \cup [Type : {TagBaseUrl}, Data : {<<104>>, <<105>>, <<10>>}]
    \cup [Type : {TagTunerCount}, Data : {<<2>>, <<>>}]

TagLists(T) == UNION {[1..n -> T] : n \in 0..MaxConsumerTags}

ReplyPackets ==
    [Type : {TypeGetsetRpy}, Tags : TagLists(GetsetTags)]
    \cup [Type : {TypeDiscoverRpy}, Tags : TagLists(DiscoverTags)]

\* the address the reply came from
ReplyAddr == "192.0.2.7:65001"

NoDecoded == [err |-> TRUE, d |-> NewDevice("")]

ReplyOff ==
    /\ rpc = "off" /\ rpkt = NoPacket /\ rq = Failure("none", "none") /\ rd = NoDecoded

InitReply ==
    /\ rpkt \in ReplyPackets
    /\ rpc = IF rpkt.Type = TypeGetsetRpy THEN "query" ELSE "device"
    /\ rq = Failure("none", "none")
    /\ rd = NoDecoded

\* c.Query("a") on a connection whose Read returns the encoding of rpkt
ReplyQuery ==
    /\ rpc = "query"
    /\ rq' = Query(<<97>>, [werr |-> FALSE, rerr |-> FALSE, bytes |-> MarshalBinary(rpkt).b])
    /\ rpc' = "done"
    /\ UNCHANGED <<rpkt, rd>>
    /\ ReplyFrame

\* newDiscoveredDevice(addr.String(), p) in discover
ReplyDevice ==
    /\ rpc = "device"
    /\ rd' = newDiscoveredDevice(ReplyAddr, rpkt)
    /\ rpc' = "done"
    /\ UNCHANGED <<rpkt, rq>>
    /\ ReplyFrame

NextReply ==
    \/ ReplyQuery
    \/ ReplyDevice

-----------------------------------------------------------------------------
(* Receiver harness: UnmarshalBinary called on a Packet that is fresh or
   holds the result of an earlier use *)

\* the tags the Packets of this harness are made of
IntoTags ==
    {[Type |-> TagGetsetName, Data |-> <<97, 0>>],
     [Type |-> TagGetsetValue, Data |-> <<>>]}

IntoTagLists == UNION {[1..n -> IntoTags] : n \in 0..MaxTags}

\* the Packet the method is called on: the zero Packet, or one with a type
\* and tags
Receivers == {NoPacket} \cup [Type : {TypeGetsetReq}, Tags : IntoTagLists]

\* the Packets whose encodings are decoded
IntoPackets == [Type : {TypeGetsetRpy, TypeDiscoverRpy}, Tags : IntoTagLists]

\* the bytes decoded: encodings, encodings with a bit of the checksum
\* flipped, with a declared length one too large, and two short buffers
IntoBuffers ==
    {MarshalBinary(p).b : p \in IntoPackets}
    \cup {Damaged(MarshalBinary(p).b) : p \in IntoPackets}
    \cup {Frame(p.Type, Len(MarshalTags(p.Tags).bytes) + 1, MarshalTags(p.Tags).bytes, TRUE) :
             p \in IntoPackets}
    \cup {<<>>, <<0, 5, 0, 0, 0, 0, 0>>}

IntoOff ==
    /\ upc = "off" /\ urecv = NoPacket /\ ubuf = <<>> /\ upkt = NoPacket /\ uerr = "nil"

InitInto ==
    /\ upc = "call"
    /\ urecv \in Receivers
    /\ ubuf \in IntoBuffers
    /\ upkt = urecv
    /\ uerr = "nil"

\* err := p.UnmarshalBinary(b)
IntoUnmarshal ==
    /\ upc = "call"
    /\ LET r == UnmarshalBinaryInto(urecv, ubuf)
       IN  /\ upkt' = [Type |-> r.Type, Tags |-> r.Tags]
           /\ uerr' = r.err
    /\ upc' = "done"
    /\ UNCHANGED <<urecv, ubuf>>
    /\ IntoFrame

NextInto ==
    \/ IntoUnmarshal

-----------------------------------------------------------------------------
(* collector.go: collector.Collect on a device wrapping a Client *)

\* most tuners a device answers for
MaxCollectTuners == 3

\* the metric families of newCollector
DeviceInfo == "hdhomerun_device_info"

TunerInfo == "hdhomerun_tuner_info"

TunerRatios ==
    <<"hdhomerun_tuner_signal_strength_ratio",
      "hdhomerun_tuner_signal_to_noise_ratio",
      "hdhomerun_tuner_symbol_error_ratio">>

CableCARDGauges ==
    <<"hdhomerun_cablecard_bytes_per_second",
      "hdhomerun_cablecard_overflow",
      "hdhomerun_cablecard_resync">>

NetworkGauges ==
    <<"hdhomerun_network_packets_per_second", "hdhomerun_network_errors">>

\* the sections of a TunerDebug the collector looks at: Tuner, Network,
\* CableCARD; a section is nil when the status has no line for it
Sections == {"tun", "net", "cc"}

\* Describe(ch): the descs of the collector
Describe ==
    <<DeviceInfo, TunerInfo>> \o TunerRatios \o CableCARDGauges \o NetworkGauges

\* prometheus.MustNewConstMetric(desc, GaugeValue, value, labels...) and
\* prometheus.NewInvalidMetric(desc, err)
ConstMetric(desc, labels) == [desc |-> desc, labels |-> labels, invalid |-> FALSE]

InvalidMetric(desc) == [desc |-> desc, labels |-> <<>>, invalid |-> TRUE]

\* the model name, the channel and the lock the device reports
ModelName == <<109>>

Channel == <<99>>

LockName == <<108>>

\* the metrics a helper sends for each desc of its ds, in order
Gauges(descs, labels) == [j \in 1..Len(descs) |-> ConstMetric(descs[j], labels)]

\* collectTuner(ch, tuner, stats.Tuner)
collectTuner(tuner, secs) ==
    IF "tun" \notin secs THEN <<>>
    ELSE <<ConstMetric(TunerInfo, <<tuner, Channel, LockName>>)>>
         \o Gauges(TunerRatios, <<tuner>>)

\* collectNetwork(ch, tuner, stats.Network)
collectNetwork(tuner, secs) ==
    IF "net" \notin secs THEN <<>> ELSE Gauges(NetworkGauges, <<tuner>>)

\* collectCableCARD(ch, stats.CableCARD)
collectCableCARD(secs) ==
    IF "cc" \notin secs THEN <<>> ELSE Gauges(CableCARDGauges, <<>>)

\* ccOnce.Do(f) running f whenever it is called
OnceDoAlways(done, metrics) == metrics

\* ccOnce.Do(f): f runs in the first call only
OnceDo(done, metrics) == IF done THEN <<>> ELSE metrics

\* the function handed to ForEachTuner sending the network gauges before the
\* tuner's own metrics
CallbackNetworkFirst(i, secs, done) ==
    collectNetwork(Itoa(i), secs)
    \o collectTuner(Itoa(i), secs)
    \o OnceDo(done, collectCableCARD(secs))

\* the function handed to ForEachTuner, after t.Debug() returned a status
\* with the sections secs: what it sends on ch
Callback(i, secs, done) ==
    collectTuner(Itoa(i), secs)
    \o collectNetwork(Itoa(i), secs)
    \o OnceDo(done, collectCableCARD(secs))

CollectOff ==
    /\ kpc = "off" /\ ki = 0 /\ kch = <<>> /\ kq = <<>> /\ kcc = FALSE /\ kseen = <<>>

\* Collect(ch) is called
InitCollect ==
    /\ kpc = "model" /\ ki = 0 /\ kch = <<>> /\ kq = <<>> /\ kcc = FALSE /\ kseen = <<>>

\* Collect going on to the tuners after a failed Model query
CollectModelGoesOn ==
    /\ kpc = "model"
    /\ kq' = Append(kq, <<"model">>)
    /\ \/ kch' = Append(kch, ConstMetric(DeviceInfo, <<ModelName>>))
       \/ kch' = Append(kch, InvalidMetric(DeviceInfo))
    /\ kpc' = "probe"
    /\ UNCHANGED <<ki, kcc, kseen>>
    /\ CollectFrame

\* lines 130-141: c.d.Model() fails and the invalid metric is sent, or it
\* succeeds and device_info is sent
CollectModel ==
    /\ kpc = "model"
    /\ kq' = Append(kq, <<"model">>)
    /\ \/ /\ kch' = Append(kch, ConstMetric(DeviceInfo, <<ModelName>>))
          /\ kpc' = "probe"
       \/ /\ kch' = Append(kch, InvalidMetric(DeviceInfo))
          /\ kpc' = "done"
    /\ UNCHANGED <<ki, kcc, kseen>>
    /\ CollectFrame

\* Client.ForEachTuner: t := c.Tuner(i); t.Debug() to see whether the tuner
\* exists.  It does, or the device does not know it and ForEachTuner returns
\* nil, or the query fails and Collect sends the invalid metric for the
\* error ForEachTuner returns.
CollectProbe ==
    /\ kpc = "probe"
    /\ kq' = Append(kq, <<"debug", ki>>)
    /\ \/ /\ ki < MaxCollectTuners
          /\ kpc' = "debug"
          /\ UNCHANGED kch
       \/ /\ kpc' = "done"
          /\ UNCHANGED kch
       \/ /\ kpc' = "done"
          /\ kch' = Append(kch, InvalidMetric(TunerInfo))
    /\ UNCHANGED <<ki, kcc, kseen>>
    /\ CollectFrame

\* fn(t), lines 150-165: stats, err := t.Debug() fails and ForEachTuner
\* returns the error, for which Collect sends the invalid metric; or it
\* returns a status with some sections, the metrics are sent and i++
CollectDebug ==
    /\ kpc = "debug"
    /\ kq' = Append(kq, <<"debug", ki>>)
    /\ \/ /\ kpc' = "done"
          /\ kch' = Append(kch, InvalidMetric(TunerInfo))
          /\ UNCHANGED <<ki, kcc, kseen>>
       \/ \E secs \in SUBSET Sections :
             /\ kch' = kch \o Callback(ki, secs, kcc)
             /\ kcc' = TRUE
             /\ kseen' = Append(kseen, secs)
             /\ ki' = ki + 1
             /\ kpc' = "probe"
    /\ CollectFrame

NextCollect ==
    \/ CollectModel
    \/ CollectProbe
    \/ CollectDebug

-----------------------------------------------------------------------------
(* Tag length buffers: the helpers on buffers of any length, and the windows
   MarshalBinary and UnmarshalBinary hand them *)

\* the longest buffer handed to the helpers
MaxBufLen == 3

BufBytes == {0, 1, 128, 255}

Buffers == UNION {[1..n -> BufBytes] : n \in 0..MaxBufLen}

\* lengths on both sides of largeTagLength
BufLens == {0, 1, largeTagLength - 1, largeTagLength, largeTagLength + 1}

\* the second loop of MarshalBinary from offset i: the offsets i at which it
\* takes the window b[i:i+2] for writeTagLength
RECURSIVE MarshalWindows(_, _)
MarshalWindows(tags, i) ==
    IF tags = <<>> THEN <<>>
    ELSE LET t == Head(tags)
             w == writeTagLength(Len(t.Data), <<0, 0>>)
         IN  <<i + 1>>
             \o MarshalWindows(Tail(tags), i + 1 + w.consumed + Len(t.Data))

\* the Packet encoded: a tag of bn bytes, then a tag holding the buffer
BufPacket ==
    [Type |-> TypeGetsetReq,
     Tags |-> <<[Type |-> TagGetsetValue, Data |-> Fill(bn)],
                [Type |-> TagGetsetName, Data |-> bbuf]>>]

NoEncoding == [err |-> "nil", size |-> 0, windows |-> <<>>]

BufOff ==
    /\ bpc = "off" /\ bn = 0 /\ bbuf = <<>> /\ bw = NoWrite /\ brd = NoRead
    /\ benc = NoEncoding /\ bdec = "nil"

InitBuf ==
    /\ bpc = "write"
    /\ bn \in BufLens
    /\ bbuf \in Buffers
    /\ bw = NoWrite /\ brd = NoRead
    /\ benc = NoEncoding /\ bdec = "nil"

\* writeTagLength(n, b) on the buffer
BufWrite ==
    /\ bpc = "write"
    /\ bw' = writeTagLength(bn, bbuf)
    /\ bpc' = "read"
    /\ UNCHANGED <<bn, bbuf, brd, benc, bdec>>
    /\ BufFrame

\* readTagLength(b) on the buffer
BufRead ==
    /\ bpc = "read"
    /\ brd' = readTagLength(bbuf)
    /\ bpc' = "marshal"
    /\ UNCHANGED <<bn, bbuf, bw, benc, bdec>>
    /\ BufFrame

\* p.MarshalBinary()
BufMarshal ==
    /\ bpc = "marshal"
    /\ benc' = [err |-> MarshalBinary(BufPacket).err,
                size |-> 2 + 2 + TagsCount(BufPacket.Tags) + 4,
                windows |-> MarshalWindows(BufPacket.Tags, 4)]
    /\ bpc' = "unmarshal"
    /\ UNCHANGED <<bn, bbuf, bw, brd, bdec>>
    /\ BufFrame

\* p.UnmarshalBinary(b) on the buffer as the payload of a packet
BufUnmarshal ==
    /\ bpc = "unmarshal"
    /\ bdec' = UnmarshalBinary(Frame(TypeGetsetRpy, Len(bbuf), bbuf, TRUE)).err
    /\ bpc' = "done"
    /\ UNCHANGED <<bn, bbuf, bw, brd, benc>>
    /\ BufFrame

NextBuf ==
    \/ BufWrite
    \/ BufRead
    \/ BufMarshal
    \/ BufUnmarshal

-----------------------------------------------------------------------------
(* Specifications: one per component, the other components held still *)

InitSpecCodec == InitCodec /\ ClientOff /\ QueryOff /\ TunerOff /\ DiscOff /\ NotExistOff
        /\ LenOff /\ HandlerOff /\ ReplyOff /\ IntoOff /\ CollectOff /\ BufOff

SpecCodec == InitSpecCodec /\ [][NextCodec]_vars

InitSpecFlip ==
    InitFlip /\ ClientOff /\ QueryOff /\ TunerOff /\ DiscOff /\ NotExistOff
        /\ LenOff /\ HandlerOff /\ ReplyOff /\ IntoOff /\ CollectOff /\ BufOff

SpecFlip == InitSpecFlip /\ [][NextFlip]_vars

InitSpecLen ==
    InitLen /\ CodecOff /\ ClientOff /\ QueryOff /\ TunerOff /\ DiscOff /\ NotExistOff
        /\ HandlerOff /\ ReplyOff /\ IntoOff /\ CollectOff /\ BufOff

SpecLen == InitSpecLen /\ [][NextLen]_vars

InitSpecLayout ==
    InitLayout /\ ClientOff /\ QueryOff /\ TunerOff /\ DiscOff /\ NotExistOff
        /\ LenOff /\ HandlerOff /\ ReplyOff /\ IntoOff /\ CollectOff /\ BufOff

SpecLayout == InitSpecLayout /\ [][NextLayout]_vars

InitSpecHandler ==
    InitHandler /\ CodecOff /\ ClientOff /\ QueryOff /\ TunerOff /\ DiscOff /\ NotExistOff
        /\ LenOff /\ ReplyOff /\ IntoOff /\ CollectOff /\ BufOff

SpecHandler == InitSpecHandler /\ [][NextHandler]_vars

InitSpecClient == InitClient /\ CodecOff /\ QueryOff /\ TunerOff /\ DiscOff /\ NotExistOff
        /\ LenOff /\ HandlerOff /\ ReplyOff /\ IntoOff /\ CollectOff /\ BufOff

SpecClient == InitSpecClient /\ [][NextClient]_vars

InitSpecQuery == InitQuery /\ CodecOff /\ ClientOff /\ TunerOff /\ DiscOff /\ NotExistOff
        /\ LenOff /\ HandlerOff /\ ReplyOff /\ IntoOff /\ CollectOff /\ BufOff

SpecQuery == InitSpecQuery /\ [][NextQuery]_vars

InitSpecTuner == InitTuner /\ CodecOff /\ ClientOff /\ QueryOff /\ DiscOff /\ NotExistOff
        /\ LenOff /\ HandlerOff /\ ReplyOff /\ IntoOff /\ CollectOff /\ BufOff

SpecTuner == InitSpecTuner /\ [][NextTuner]_vars

InitSpecDiscover == InitDiscover /\ CodecOff /\ ClientOff /\ QueryOff /\ TunerOff /\ NotExistOff
        /\ LenOff /\ HandlerOff /\ ReplyOff /\ IntoOff /\ CollectOff /\ BufOff

SpecDiscover == InitSpecDiscover /\ [][NextDiscover]_vars

\* a goroutine that can take a step takes one
SpecDiscoverFair == SpecDiscover /\ WF_vars(DiscoverSteps)

SpecDiscoverAny == InitSpecDiscover /\ [][NextDiscoverAny]_vars

InitSpecDiscoverOptions ==
    InitDiscoverOptions /\ CodecOff /\ ClientOff /\ QueryOff /\ TunerOff /\ NotExistOff
        /\ LenOff /\ HandlerOff /\ ReplyOff /\ IntoOff /\ CollectOff /\ BufOff

SpecDiscoverOptions == InitSpecDiscoverOptions /\ [][NextDiscoverOptions]_vars

InitSpecReply ==
    InitReply /\ CodecOff /\ ClientOff /\ QueryOff /\ TunerOff /\ DiscOff /\ NotExistOff
        /\ LenOff /\ HandlerOff /\ IntoOff /\ CollectOff /\ BufOff

SpecReply == InitSpecReply /\ [][NextReply]_vars

InitSpecInto ==
    InitInto /\ CodecOff /\ ClientOff /\ QueryOff /\ TunerOff /\ DiscOff /\ NotExistOff
        /\ LenOff /\ HandlerOff /\ ReplyOff /\ CollectOff /\ BufOff

SpecInto == InitSpecInto /\ [][NextInto]_vars

InitSpecCollect ==
    InitCollect /\ CodecOff /\ ClientOff /\ QueryOff /\ TunerOff /\ DiscOff /\ NotExistOff
        /\ LenOff /\ HandlerOff /\ ReplyOff /\ IntoOff /\ BufOff

SpecCollect == InitSpecCollect /\ [][NextCollect]_vars

InitSpecBuf ==
    InitBuf /\ CodecOff /\ ClientOff /\ QueryOff /\ TunerOff /\ DiscOff /\ NotExistOff
        /\ LenOff /\ HandlerOff /\ ReplyOff /\ IntoOff /\ CollectOff

SpecBuf == InitSpecBuf /\ [][NextBuf]_vars

InitSpecNotExist ==
    InitNotExist /\ CodecOff /\ ClientOff /\ QueryOff /\ TunerOff /\ DiscOff
        /\ LenOff /\ HandlerOff /\ ReplyOff /\ IntoOff /\ CollectOff /\ BufOff

SpecNotExist == InitSpecNotExist /\ [][NextNotExist]_vars

-----------------------------------------------------------------------------
(* Codec properties *)

\* C3: every buffer UnmarshalBinary accepts is reproduced byte for byte by
\* MarshalBinary of the decoded Packet (the check fuzz.go's Fuzz makes),
\* whichever way the tag length fields were written on the wire.
C3_FuzzReencodesInput ==
    (cmode = "decode" /\ cstep = 2) => (cerr = "nil" /\ cdata2 = cdata)

\* C4: a Packet whose tags carry at most 32767 bytes and whose payload fits
\* 16 bits marshals without error, and unmarshalling the result into a
\* fresh Packet succeeds and gives the same type and the same tags.
C4_EncodeDecodeRoundTrip ==
    cmode = "encode" =>
        /\ cstep >= 1 => cerr = "nil"
        /\ cstep = 2 => (cpkt2.Type = cpkt.Type /\ cpkt2.Tags = cpkt.Tags)

\* a two-tag Packet with a one-byte and a two-byte length field went
\* through MarshalBinary and UnmarshalBinary
C4_Witness ==
    /\ cmode = "encode" /\ cstep = 2
    /\ Len(cpkt.Tags) = 2
    /\ Len(cpkt.Tags[1].Data) = 127
    /\ Len(cpkt.Tags[2].Data) = 128

-----------------------------------------------------------------------------
(* Client properties *)

\* the goroutine has passed Lock and not yet reached Unlock
InCritical(g) == gpc[g] \in {"arm", "write", "read", "decode", "set", "close"}

\* the goroutine's Execute has written its request and not yet read the reply
InTransaction(g) == gpc[g] = "read"

\* while one Execute is between its write and its read, no other goroutine
\* is inside Execute, SetTimeout or Close
OneTransaction ==
    \A g, h \in Callers : (g # h /\ InTransaction(g)) => ~InCritical(h)

\* the reply a successful Execute returned echoes the name of its own request
OwnReply(g) ==
    gres[g].err = "nil" =>
        /\ gres[g].rep.Tags # <<>>
        /\ gres[g].rep.Tags[1].Data = strBytes(QueryName(gres[g].id))

-----------------------------------------------------------------------------
(* Query properties *)

\* the reply Execute handed to Query, when it handed one
Received == Execute(QueryRequest(qquery), qdev)

GotReply == qstep = 1 /\ Received.kind = "ok" /\ Received.rep.Type = TypeGetsetRpy

\* the data of the reply's tags of one type, in the order of the tags
TagData(tags, typ) ==
    LET idx == {i \in 1..Len(tags) : tags[i].Type = typ}
    IN  [i \in idx |-> tags[i].Data]

HasTag(tags, typ) == \E i \in 1..Len(tags) : tags[i].Type = typ

FirstTag(tags, typ) ==
    tags[CHOOSE i \in 1..Len(tags) :
            /\ tags[i].Type = typ
            /\ \A j \in 1..(i - 1) : tags[j].Type # typ]

Names == TagData(Received.rep.Tags, TagGetsetName)

Values == TagData(Received.rep.Tags, TagGetsetValue)

\* C8: a get/set reply that carries a name tag and a value tag, and in which
\* no name tag is byte for byte the query followed by one null byte, makes
\* Query return an error and no value.
C8_NameEchoRejected ==
    ( /\ GotReply
      /\ HasTag(Received.rep.Tags, TagGetsetName)
      /\ HasTag(Received.rep.Tags, TagGetsetValue)
      /\ \A i \in DOMAIN Names : Names[i] # strBytes(qquery) )
    => (qres.kind \in {"protocol", "device"} /\ qres.value = Nil)

\* a reply with no error tag, a value, and the query echoed without its
\* null terminator was rejected as a protocol mismatch
C8_Witness ==
    /\ GotReply
    /\ ~HasTag(Received.rep.Tags, TagErrorMessage)
    /\ HasTag(Received.rep.Tags, TagGetsetValue)
    /\ DOMAIN Names # {}
    /\ \A i \in DOMAIN Names : Names[i] = qquery
    /\ qres.kind = "protocol" /\ qres.value = Nil

\* C9: a get/set reply with an error tag makes Query return a device-reported
\* Error whose message is made from (the first) error tag's text, and no
\* value, wherever the error tag stands and whatever name and value tags
\* the reply carries.
C9_ErrorTagShortCircuits ==
    (GotReply /\ HasTag(Received.rep.Tags, TagErrorMessage))
    => /\ qres.kind = "device"
       /\ qres.msg = newError(FirstTag(Received.rep.Tags, TagErrorMessage).Data)
       /\ qres.value = Nil

\* the error tag came last, after the echoed name and a value, and Query
\* still returned the Error "unknown getset variable"
C9_Witness ==
    /\ GotReply
    /\ Len(Received.rep.Tags) = 3
    /\ Received.rep.Tags[1] = [Type |-> TagGetsetName, Data |-> strBytes(qquery)]
    /\ Received.rep.Tags[2].Type = TagGetsetValue
    /\ Received.rep.Tags[3].Type = TagErrorMessage
    /\ qres.kind = "device" /\ qres.msg = unknownGetSet

\* the conditions of a successful Query other than the name comparison
Answerable ==
    /\ GotReply
    /\ ~HasTag(Received.rep.Tags, TagErrorMessage)
    /\ HasTag(Received.rep.Tags, TagGetsetName)
    /\ HasTag(Received.rep.Tags, TagGetsetValue)

\* C10: Query succeeds exactly when Execute succeeded, the reply is a get/set
\* reply without error tag, with a name tag and a value tag, and the name
\* tag is the null-terminated query; a reply without error tag that lacks
\* the name or the value tag fails as a protocol violation; the bytes
\* returned are a value tag's data as received, terminator included.
\* (Stated for "the" name tag: success needs some name tag to match, and
\* follows when every name tag matches.)
C10_QuerySuccess ==
    qstep = 1 =>
        /\ qres.kind = "ok" =>
              /\ Answerable
              /\ \E i \in DOMAIN Names : Names[i] = strBytes(qquery)
              /\ \E i \in DOMAIN Values : Values[i] = qres.value
        /\ (Answerable /\ \A i \in DOMAIN Names : Names[i] = strBytes(qquery))
              => qres.kind = "ok"
        /\ ( /\ GotReply
             /\ ~HasTag(Received.rep.Tags, TagErrorMessage)
             /\ \/ ~HasTag(Received.rep.Tags, TagGetsetName)
                \/ ~HasTag(Received.rep.Tags, TagGetsetValue) )
              => qres.kind = "protocol"

\* Query returned "v\0", the value tag's data with its terminator
C10_Witness ==
    /\ qstep = 1 /\ qres.kind = "ok"
    /\ qres.value = <<118, 0>>
    /\ Len(Received.rep.Tags) = 3

-----------------------------------------------------------------------------
(* ForEachTuner properties *)

\* 0, 1, ..., n-1
Iota(n) == [k \in 1..n |-> k - 1]

Last(seq) == seq[Len(seq)]

\* so far the device has answered successfully, except possibly for the
\* last index queried, where it answered "does not exist"
AnswersOkThenNotExist ==
    \A k \in 1..Len(fans) :
        \/ fans[k] \in OkAnswers
        \/ k = Len(fans) /\ fans[k] \in NotExistAnswers

\* C6: with a device answering the debug query for the indices below N and
\* "does not exist" at N, and fn never failing, ForEachTuner queries
\* 0, 1, ..., N in this order, invokes fn once for each of 0..N-1 in this
\* order and for no other index, and returns nil after the query for N.
C6_EnumeratesUntilNotExist ==
    (AnswersOkThenNotExist /\ ~fcberr) =>
        /\ fprobes = Iota(Len(fprobes))
        /\ fvisits = Iota(Len(fvisits))
        /\ fpc = "probe" => (Len(fprobes) = fi /\ Len(fvisits) = fi)
        /\ fpc = "callback" => (Len(fprobes) = fi + 1 /\ Len(fvisits) = fi)
        /\ (fans # <<>> /\ Last(fans) \in NotExistAnswers) =>
              /\ fpc = "done"
              /\ fret = NilError
              /\ Len(fvisits) = Len(fprobes) - 1
        /\ fpc = "done" => (fans # <<>> /\ Last(fans) \in NotExistAnswers)

\* a device with two tuners: indices 0, 1, 2 queried, fn invoked for 0 and
\* 1, nil returned
C6_Witness ==
    /\ fpc = "done" /\ fret = NilError
    /\ fans = <<"status", "status", "notexist0">>
    /\ fprobes = <<0, 1, 2>> /\ fvisits = <<0, 1>>

\* the error t.Debug() returns for each failing answer of the device
ProbeError(kind) ==
    CASE kind = "othererror" -> DeviceError(<<120>>)
      [] kind = "malformed" -> Failure("parse", "malformed tuner status line")
      [] kind = "wrongname" -> Failure("protocol", "unexpected query in reply packet")
      [] kind = "wrongtype" -> Failure("protocol", "expected get/set reply")
      [] kind = "damaged" -> Failure("framing", "errInvalidChecksum")
      [] OTHER -> Failure("transport", "read")

\* C7: a probe failing with anything but "does not exist" stops the
\* iteration, its error is what ForEachTuner returns, and fn is invoked
\* neither for that index nor later; an error from fn stops the iteration,
\* is returned as it is, and the next index is not queried.
C7_ErrorsAbortIteration ==
    /\ (fans # <<>> /\ Last(fans) \in FailAnswers) =>
          /\ fpc = "done"
          /\ fret = ProbeError(Last(fans))
          /\ fvisits = Iota(Len(fprobes) - 1)
          /\ ~fcberr
    /\ fcberr =>
          /\ fpc = "done"
          /\ fret = CallbackError
          /\ Len(fprobes) = Len(fvisits)
          /\ Last(fprobes) = Last(fvisits)
          /\ Last(fans) \in OkAnswers

\* the third probe failed on a status line parse rejects, after fn had been
\* invoked for tuners 0 and 1
C7_Witness ==
    /\ fpc = "done"
    /\ fans = <<"status", "empty", "malformed">>
    /\ fvisits = <<0, 1>>
    /\ fret.kind = "parse"

-----------------------------------------------------------------------------
(* Discover properties *)

\* C2: whatever the order of datagram arrival, the return of the read and
\* the cancellation, the goroutine that loses the handoff on msgC does not
\* panic: Discover never sends on msgC after the goroutine has closed it.
C2_LoserNeverPanics == dpc # "panic"

\* the call has returned
Returned == dpc = "idle" /\ dcalls > 0

\* the context was cancelled while the call was blocked in ReadFrom and no
\* datagram has been read since
CancelledWhileBlocked == dcanAt = "read" /\ ~dlate

\* every device of found is a device of found2, at the same place
IsPrefix(found, found2) ==
    /\ Len(found) <= Len(found2)
    /\ \A k \in 1..Len(found) : found2[k] = found[k]

\* a call whose context was done from the start has returned io.EOF without
\* a ReadFrom; a call cancelled while blocked returns nothing but io.EOF,
\* with the socket closed
C5_CancelSafety ==
    /\ dpre => (Returned /\ dret = Ret("EOF") /\ dreads = 0 /\ dsock = "closed")
    /\ CancelledWhileBlocked =>
          /\ dpc # "panic"
          /\ dpend.kind \in {"none", "EOF"}
          /\ Returned => (dret = Ret("EOF") /\ dsock = "closed")

\* between two calls nothing changes what the last call returned, and the
\* devices returned so far stay as they were returned
C5_ResultsKept ==
    /\ IsPrefix(dfound, dfound')
    /\ (dpc = "idle" /\ dcalls' = dcalls) => dret' = dret

\* C5: a Discover call whose context is done already returns io.EOF without
\* reading from the socket; a call whose context is cancelled while it is
\* blocked in ReadFrom, no datagram being read afterwards, has its socket
\* closed by the goroutine and eventually returns io.EOF, never another
\* error and never a device; devices returned earlier are left as they were.
C5_CancelYieldsEOF ==
    /\ []C5_CancelSafety
    /\ [][C5_ResultsKept]_vars
    /\ (CancelledWhileBlocked /\ ~Returned) ~>
          (dlate \/ (Returned /\ dret = Ret("EOF")))

\* a second call, cancelled while blocked with nothing to read, returned
\* io.EOF after the first call had returned a device
C5_Witness ==
    /\ Returned /\ dcalls = 2
    /\ dcanAt = "read" /\ ~dlate /\ dinbox = <<>>
    /\ dret = Ret("EOF")
    /\ Len(dfound) = 1

-----------------------------------------------------------------------------
(* IsNotExist properties *)

\* the four ways the sentinel goes over the wire
SentinelTexts ==
    {unknownGetSet, unknownGetSet \o <<0>>,
     errorPrefix \o unknownGetSet, errorPrefix \o unknownGetSet \o <<0>>}

\* C11: IsNotExist(err) is true exactly for a device-reported Error whose
\* Message is the sentinel body; an error tag holding the sentinel with or
\* without the "ERROR: " prefix and with or without one trailing null byte
\* gives true, and nil, failed I/O, a damaged frame, a reply Query does
\* not accept and every other device message give false.
C11_IsNotExistExactlySentinel ==
    epc = "checked" =>
        /\ eans <=> (eerr.kind = "device" /\ eerr.msg = unknownGetSet)
        /\ esrc = "tag" => (eerr.kind = "device" /\ (eans <=> etext \in SentinelTexts))
        /\ esrc # "tag" => (eerr.kind # "device" /\ ~eans)

\* the sentinel sent with its prefix and a null byte was recognised
C11_Witness ==
    /\ epc = "checked"
    /\ esrc = "tag"
    /\ etext = errorPrefix \o unknownGetSet \o <<0>>
    /\ eans

-----------------------------------------------------------------------------
(* Discovery reply properties *)

\* the datagrams that are discover replies with a device type and a
\* four-byte device ID, intact and of the length they declare
DeviceDatagram == Datagram("device")

Device2Datagram == Datagram("device2")

ValidDatagrams == {DeviceDatagram, Device2Datagram}

\* the characters 0-9 and a-f
HexChars == (48..57) \cup (97..102)

\* a device as the claim wants it: built from a valid datagram dg, its ID
\* eight hexadecimal characters, its type present
DeviceOf(dev, dg) ==
    /\ dg \in ValidDatagrams
    /\ dev.Addr = dg.from
    /\ Len(dev.ID) = 8
    /\ \A k \in 1..8 : dev.ID[k] \in HexChars
    /\ dev.Type # <<0, 0, 0, 0>>

\* what discover has decided about the datagram it read last
C12_Classified ==
    /\ dpend.kind # "panic"
    /\ dpend.kind = "device" => DeviceOf(dpend.dev, dbuf)
    /\ dpend.kind = "retry" => dbuf \notin ValidDatagrams
    /\ (dpc = "wait" /\ dbuf \notin ValidDatagrams /\ dpend.kind \notin {"EOF", "listener"})
          => dpend.kind = "retry"
    /\ \A k \in 1..Len(dfound) : \E dg \in ValidDatagrams : DeviceOf(dfound[k], dg)

\* a retryable datagram does not end the call: discover is entered again,
\* nothing is returned, sent or closed; and each read takes the datagram at
\* the head of the socket's queue
C12_RetryReadsNext ==
    /\ (dpc = "wait" /\ dpend.kind = "retry" /\ dpc' # dpc) =>
          /\ dpc' = "start"
          /\ dret' = dret /\ dfound' = dfound /\ dcalls' = dcalls
          /\ dsock' = dsock /\ dsent' = dsent
    /\ (dpc = "read" /\ dpc' = "notify") =>
          /\ dbuf' = Head(dinbox) /\ dinbox' = Tail(dinbox)
          /\ dsent' = dsent

\* C12: every device Discover returns was built from a datagram that
\* decodes, is a discover reply and carries a device type and a four-byte
\* device ID, the ID rendered as eight hexadecimal characters; every other
\* datagram is retryable: Discover does not return on it and reads the next
\* datagram of the same socket, sending nothing.
C12_OnlyValidRepliesReturned ==
    []C12_Classified /\ [][C12_RetryReadsNext]_vars

\* one call read an invalid datagram, read again and returned the device of
\* the valid datagram that followed
C12_Witness ==
    /\ Returned
    /\ dreads = 2
    /\ dret.kind = "device"
    /\ dbuf = Device2Datagram
    /\ dret.dev.ID = <<49, 48, 53, 50, 48, 48, 48, 49>>

\* the socket's log holds nothing before NewDiscoverer and exactly the one
\* request once a Discoverer exists
C13_OneRequest ==
    /\ dpc = "new" => dsent = <<>>
    /\ dpc = "failed" => dsent = <<>>
    /\ dpc \notin {"new", "failed"} =>
          dsent = <<mustDiscoverPacket(DeviceTypeWildcard,
                                       ParseDeviceID(DeviceIDWildcard).idb)>>

\* no step after NewDiscoverer writes to the socket
C13_NoLaterWrite == dpc # "new" => dsent' = dsent

\* C13: the discovery request is written to the socket once, by
\* NewDiscoverer; no Discover call, no retry after a malformed reply and no
\* later Discover call on the same Discoverer writes to the socket.
C13_RequestSentOnce ==
    []C13_OneRequest /\ [][C13_NoLaterWrite]_vars

\* a first Discover call returned a device, a second one read a malformed
\* reply, read again and returned: one request sent in all
C13_Witness ==
    /\ Returned
    /\ dcalls = 2
    /\ dreads = 2
    /\ Len(dfound) = 1
    /\ Len(dsent) = 1

\* the device each valid datagram describes
ExpectedDevice(dg) ==
    IF dg = DeviceDatagram
    THEN [ID |-> <<49, 48, 53, 49, 97, 98, 99, 100>>, Addr |-> dg.from,
          Type |-> <<0, 0, 0, 1>>, URL |-> Nil, Tuners |-> 2]
    ELSE [ID |-> <<49, 48, 53, 50, 48, 48, 48, 49>>, Addr |-> dg.from,
          Type |-> <<0, 0, 0, 1>>, URL |-> Nil, Tuners |-> 0]

\* the devices of the valid datagrams of a sequence of datagrams, in order
RECURSIVE DevicesOf(_)
DevicesOf(dgs) ==
    IF dgs = <<>> THEN <<>>
    ELSE IF Head(dgs) \in ValidDatagrams
         THEN <<ExpectedDevice(Head(dgs))>> \o DevicesOf(Tail(dgs))
         ELSE DevicesOf(Tail(dgs))

\* the datagram discover has read and not yet turned into a return value
InFlight ==
    IF dpc \in {"notify", "decode"} \/ (dpc = "wait" /\ dpend.kind \in {"device", "retry"})
    THEN <<dbuf>> ELSE <<>>

\* the devices returned so far, then the devices of the valid datagrams
\* received and not yet returned, in the order of their arrival
Accounted == dfound \o DevicesOf(InFlight \o dinbox)

\* a returned device leaves the socket open
C14_SocketStaysOpen ==
    (Returned /\ dret.kind = "device") =>
        /\ dsock = "open"
        /\ dfound # <<>> /\ dret.dev = dfound[Len(dfound)]

\* while the context is live, a step changes the devices returned and to
\* be returned only by adding the device of a datagram that arrives
C14_InArrivalOrder ==
    (dctx = "nil" /\ dctx' = "nil") =>
        \/ Accounted' = Accounted
        \/ /\ Len(dinbox') = Len(dinbox) + 1
           /\ Accounted' = Accounted \o DevicesOf(<<dinbox'[Len(dinbox')]>>)

\* C14: a Discover call that returns a device leaves the socket open, and
\* successive calls with a live context return the devices of the valid
\* replies in the order the datagrams arrived, each once and none skipped.
C14_RepliesEnumeratedInOrder ==
    []C14_SocketStaysOpen /\ [][C14_InArrivalOrder]_vars

\* two calls returned the two devices in the order their replies arrived
C14_Witness ==
    /\ Returned
    /\ dcalls = 2
    /\ dctx = "nil"
    /\ dsock = "open"
    /\ dfound = <<ExpectedDevice(Device2Datagram), ExpectedDevice(DeviceDatagram)>>

-----------------------------------------------------------------------------
(* Client timeout properties *)

\* C15: while an Execute writes and reads, the deadline on the connection
\* is the one this call armed from the timeout configured at the call, and
\* there is none when that timeout is 0: no deadline of an earlier call or
\* of the connection's previous owner is in force.
C15_DeadlineResetEveryCall ==
    \A g \in Callers :
        gpc[g] \in {"write", "read"} =>
            /\ timeout = 0 => deadline = 0
            /\ timeout # 0 => deadline = gcall[g].id

-----------------------------------------------------------------------------
(* Codec error properties *)

\* C16: when one bit in front of the four checksum bytes of an encoded
\* Packet is inverted, UnmarshalBinary fails, and with the checksum error,
\* also when the bit is one of the declared payload length.
C16_BitFlipFailsChecksum ==
    (cmode = "flip" /\ cstep = 3) => cerr = "errInvalidChecksum"

\* a bit of the declared payload length of the Packet of two four-byte tags
\* was inverted and the decoding reported the checksum
C16_Witness ==
    /\ cmode = "flip" /\ cstep = 3
    /\ cpkt = ScenarioPacket
    /\ Slice(cdata2, 2, 4) # Slice(cdata, 2, 4)
    /\ cerr = "errInvalidChecksum"

\* the last four bytes of b are the little-endian CRC-32 of the bytes before
ChecksumOk(b) == Slice(b, Len(b) - 4, Len(b)) = ChecksumIEEE(Slice(b, 0, Len(b) - 4))

\* the payload length written in bytes 2-3 of b
Declared(b) == Uint16BE(Slice(b, 2, 4))

\* C17: UnmarshalBinary answers io.ErrUnexpectedEOF for every buffer of
\* fewer than 8 bytes, and for every buffer of 8 bytes or more with the right
\* checksum whose declared payload length is not len(b) - 8, be it larger or
\* smaller.
C17_TruncatedInput ==
    (/\ cmode = "decode" /\ cstep = 1
     /\ \/ Len(cdata) < 8
        \/ /\ Len(cdata) >= 8
           /\ Declared(cdata) # Len(cdata) - 8
           /\ ChecksumOk(cdata))
    => cerr = "ErrUnexpectedEOF"

\* a buffer with one byte of payload, a declared length of 0 and the right
\* checksum was refused as truncated
C17_Witness ==
    /\ cmode = "decode" /\ cstep = 1
    /\ Len(cdata) = 9
    /\ Declared(cdata) = 0
    /\ ChecksumOk(cdata)
    /\ cerr = "ErrUnexpectedEOF"

\* a buffer with a declared length one more than its payload and the right
\* checksum was refused as truncated
C17_WitnessLarger ==
    /\ cmode = "decode" /\ cstep = 1
    /\ Len(cdata) >= 8
    /\ Declared(cdata) = Len(cdata) - 7
    /\ ChecksumOk(cdata)
    /\ cerr = "ErrUnexpectedEOF"

\* a buffer of seven bytes was refused as truncated
C17_WitnessShort ==
    /\ cmode = "decode" /\ cstep = 1
    /\ Len(cdata) = 7
    /\ cerr = "ErrUnexpectedEOF"

-----------------------------------------------------------------------------
(* Tag length properties *)

\* C18: for a data length n < 128 writeTagLength writes one byte holding n,
\* its high bit clear; for 128 <= n <= 32767 it writes two bytes,
\* 0x80 | (n & 0x7F) and n >> 7; readTagLength of the window written into a
\* zeroed two-byte buffer gives back n and the same number of bytes consumed.
C18_TagLengthField ==
    /\ lpc \in {"read", "done"} =>
        /\ lw.err = "nil"
        /\ ln < 128 => (lw.consumed = 1 /\ lw.b[1] = ln /\ lw.b[1] < 128)
        /\ ln >= 128 =>
            /\ lw.consumed = 2
            /\ lw.b[1] = 128 + (ln % 128)
            /\ lw.b[2] = ln \div 128
    /\ lpc = "done" =>
        /\ lr.err = "nil"
        /\ lr.length = ln
        /\ lr.consumed = lw.consumed

\* the length 128 was written in two bytes and read back
C18_Witness ==
    /\ lpc = "done"
    /\ ln = 128
    /\ lw.b = <<128, 1>>
    /\ lr = [length |-> 128, consumed |-> 2, err |-> "nil"]

\* the length 127 was written in one byte and read back
C18_WitnessOneByte ==
    /\ lpc = "done"
    /\ ln = 127
    /\ lw.b = <<127, 0>>
    /\ lr = [length |-> 127, consumed |-> 1, err |-> "nil"]

\* the largest length was written and read back
C18_WitnessLargest ==
    /\ lpc = "done"
    /\ ln = maxTagLength
    /\ lw.b = <<255, 255>>
    /\ lr.length = maxTagLength

-----------------------------------------------------------------------------
(* Encoded layout properties *)

\* S: over the tags, 1 for the type, 1 or 2 for the length field and the
\* data length
RECURSIVE PayloadSize(_)
PayloadSize(tags) ==
    IF tags = <<>> THEN 0
    ELSE 1 + (IF Len(Head(tags).Data) < 128 THEN 1 ELSE 2) + Len(Head(tags).Data)
         + PayloadSize(Tail(tags))

\* b is laid out as the encoding of p: 8 + S bytes, the type and S
\* big-endian in front, the CRC-32 of everything before it at the end
LaidOut(p, b) ==
    /\ Len(b) = 8 + PayloadSize(p.Tags)
    /\ 256 * b[1] + b[2] = p.Type
    /\ 256 * b[3] + b[4] = PayloadSize(p.Tags)
    /\ ChecksumOk(b)

\* C19: MarshalBinary gives exactly 8 + S bytes; bytes 0-1 hold the type and
\* bytes 2-3 hold S, both big-endian, and the last four bytes hold the
\* little-endian CRC-32 of the bytes before them.
C19_MarshalLayout ==
    (cmode = "layout" /\ cstep = 1) => (cerr = "nil" /\ LaidOut(cpkt, cdata))

\* the same for the Packets whose S fits the 16 bits of bytes 2-3
C19_LayoutWithin16Bits ==
    (cmode = "layout" /\ cstep = 1 /\ PayloadSize(cpkt.Tags) < 65536)
        => (cerr = "nil" /\ LaidOut(cpkt, cdata))

\* the Packet of two four-byte tags encodes to 20 bytes with S = 12
C19_Scenario ==
    (cmode = "layout" /\ cstep = 1 /\ cpkt = ScenarioPacket)
        => (Len(cdata) = 20 /\ Declared(cdata) = 12)

\* the Packet of two 32767-byte tags has been encoded without error, and
\* bytes 2-3 hold S - 65536
C19_Truncated ==
    /\ cmode = "layout" /\ cstep = 1
    /\ cpkt = LargePacket
    /\ cerr = "nil"
    /\ Len(cdata) = 8 + PayloadSize(cpkt.Tags)
    /\ PayloadSize(cpkt.Tags) = 65540
    /\ Declared(cdata) = 4

-----------------------------------------------------------------------------
(* Scrape handler properties *)

\* the request in hreq has been answered
Answered == hpc = "idle" /\ hserved > 0

\* C20: a request with no target parameter, or an empty one, is answered
\* with status 400 and dial is never called for it; when dial returns an
\* error the request is answered with status 500 and no method of the device
\* is called.
C20_BadRequestAndDialError ==
    /\ (hpc # "off" /\ Get(hreq) = <<>>) => (hdials = <<>> /\ hcalls = <<>>)
    /\ (Answered /\ Get(hreq) = <<>>) => hcode = StatusBadRequest
    /\ hfail = "dial" =>
        /\ Answered
        /\ hcode = StatusInternalServerError
        /\ hcalls = <<>>
        /\ hclient = "none"

\* the second request, for a target without a port, was answered with 500
\* after its one dial failed
C20_Witness ==
    /\ Answered /\ hserved = 2
    /\ hreq = [has |-> TRUE, target |-> <<"h">>]
    /\ hdials = << <<"h", ":", "6", "5", "0", "0", "1">> >>
    /\ hfail = "dial"
    /\ hcode = StatusInternalServerError

\* a request with an empty target parameter was answered with 400
C20_WitnessEmptyTarget ==
    /\ Answered
    /\ hreq = [has |-> TRUE, target |-> <<>>]
    /\ hcode = StatusBadRequest
    /\ hdials = <<>>

\* a request without a target parameter was answered with 400
C20_WitnessNoTarget ==
    /\ Answered
    /\ ~hreq.has
    /\ hcode = StatusBadRequest
    /\ hdials = <<>>

\* the target is a host alone: a name or address without a colon, or an
\* IPv6 literal in its brackets
CarriesNoPort(target) ==
    \/ target # <<>> /\ ~Contains(target, ":")
    \/ /\ Len(target) >= 3
       /\ target[1] = "[" /\ target[Len(target)] = "]"
       /\ LET inner == Slice(target, 1, Len(target) - 1)
          IN  Contains(inner, ":") /\ ~Contains(inner, "[") /\ ~Contains(inner, "]")

\* the request in hreq has got past its dial
Dialled == hpc \in {"idle", "model", "tuners", "respond", "close"} /\ Get(hreq) # <<>>

\* dial is called once for a request with a non-empty target
C21_DialledOnce == Dialled => Len(hdials) = 1

\* a target that splits into host and port is dialled as host:port
C21_SplitDialled ==
    (Dialled /\ SplitHostPort(Get(hreq)).err = "nil") =>
        LET sp == SplitHostPort(Get(hreq))
        IN  hdials = <<JoinHostPort(sp.host, sp.port)>>

\* a target without a colon is dialled as the target, a colon and 65001
C21_PlainHostDialled ==
    (Dialled /\ ~Contains(Get(hreq), ":")) =>
        hdials = <<Get(hreq) \o <<":">> \o hdhomerunPort>>

\* C21: dial is called once for every request with a non-empty target; its
\* address is host:port when the target splits into host and port, and the
\* target followed by the default port 65001 when the target carries no port.
C21_DialAddress ==
    /\ C21_DialledOnce
    /\ C21_SplitDialled
    /\ (Dialled /\ CarriesNoPort(Get(hreq))) =>
           hdials = <<Get(hreq) \o <<":">> \o hdhomerunPort>>

\* a bracketed literal without a port was dialled inside a second pair of
\* brackets
C21_DoubleBrackets ==
    /\ Dialled
    /\ Get(hreq) = <<"[", ":", "]">>
    /\ hdials = << <<"[", "[", ":", "]", "]", ":">> \o hdhomerunPort >>

-----------------------------------------------------------------------------
(* Discoverer option properties *)

\* eight characters, each one of 0-9, a-f, A-F
EightHex(str) ==
    Len(str) = 8 /\ \A k \in 1..8 : str[k] \in (48..57) \cup (97..102) \cup (65..70)

\* the ID strings of the DiscoverDeviceID options among options, in order
RECURSIVE IdsOf(_)
IdsOf(options) ==
    IF options = <<>> THEN <<>>
    ELSE (IF Head(options).kind = "DeviceID" THEN <<Head(options).arg>> ELSE <<>>)
         \o IdsOf(Tail(options))

\* the ID string in force: the last one given, the wildcard when none is
IdInForce(options) ==
    IF IdsOf(options) = <<>> THEN <<102, 102, 102, 102, 102, 102, 102, 102>>
    ELSE IdsOf(options)[Len(IdsOf(options))]

\* the four bytes eight hexadecimal characters stand for
IdBytes(str) == [k \in 1..4 |-> 16 * fromHexChar(str[2 * k - 1]) + fromHexChar(str[2 * k])]

\* the data of the device ID tag of an encoded request
RequestedId(b) == UnmarshalBinary(b).Tags[2].Data

\* C22: NewDiscoverer accepts a device ID option only when its string is
\* eight hexadecimal characters; with any other string among its options it
\* returns an error without opening a socket or sending a request.  The
\* request sent asks for the ID of the last device ID option, and for
\* ffffffff when there is none.
C22_DeviceIdOption ==
    dpc \in {"failed", "idle"} =>
        /\ (\E k \in 1..Len(IdsOf(dopts)) : ~EightHex(IdsOf(dopts)[k])) =>
               (dpc = "failed" /\ dsock = "none" /\ dsent = <<>>)
        /\ dpc = "idle" =>
               /\ Len(dsent) = 1
               /\ RequestedId(dsent[1]) = IdBytes(IdInForce(dopts))

\* an ID of ten hexadecimal characters, after a valid one, was refused
C22_Witness ==
    /\ dpc = "failed" /\ dsock = "none" /\ dsent = <<>>
    /\ dopts = <<DiscoverDeviceID(<<48, 49, 50, 51, 97, 98, 67, 68>>),
                 DiscoverDeviceID([i \in 1..10 |-> 102])>>

\* the second of two valid IDs is the one asked for
C22_WitnessOverride ==
    /\ dpc = "idle"
    /\ dopts = <<DiscoverDeviceID([i \in 1..8 |-> 70]),
                 DiscoverDeviceID(<<48, 49, 50, 51, 97, 98, 67, 68>>)>>
    /\ RequestedId(dsent[1]) = <<1, 35, 171, 205>>

\* without a device ID option the wildcard is asked for
C22_WitnessDefault ==
    /\ dpc = "idle"
    /\ dopts = <<DiscoverDeviceType(<<0, 0, 0, 1>>)>>
    /\ RequestedId(dsent[1]) = <<255, 255, 255, 255>>

-----------------------------------------------------------------------------
(* Watcher goroutine properties *)

\* no discover attempt is running: none was started yet, or the last one has
\* returned, to the loop, to the caller or by a panic
BetweenAttempts == dpc \in {"idle", "start", "panic"}

\* the statement as made: whenever an attempt has returned, its goroutine
\* has terminated
C23_Original == BetweenAttempts => dwatch \in {"none", "exited"}

\* C23: whenever a discover attempt has returned, on any path, its goroutine
\* has left its select and called wg.Done(): all it may still do is
\* close(msgC), and it can no longer close the socket.
C23_WatcherPastSelect ==
    BetweenAttempts => (dwg = 0 /\ dwatch \in {"none", "closemsg", "exited"})

\* Discover has returned a device while the goroutine of the attempt has yet
\* to close msgC
C23_Witness ==
    /\ dpc = "idle"
    /\ dret.kind = "device"
    /\ dwatch = "closemsg"
    /\ dmsgC = "open"

\* the same after a failed read, a retry and a cancellation
C23_WitnessFatal == dpc = "idle" /\ dret = Ret("listener") /\ dwatch = "closemsg"

C23_WitnessRetry == dpc = "start" /\ dwatch = "closemsg"

C23_WitnessCancelled == dpc = "idle" /\ dret = Ret("EOF") /\ dwatch = "closemsg"

-----------------------------------------------------------------------------
(* Tag bounds properties *)

\* the tags a payload divides into, read from the payload alone: a type byte,
\* a length field of one byte or, its high bit set, of two, and the data;
\* ok is FALSE when a field or the data of a tag does not fit the payload
RECURSIVE TagsOfPayload(_, _)
TagsOfPayload(pl, tags) ==
    IF pl = <<>> THEN [ok |-> TRUE, tags |-> tags]
    ELSE IF Len(pl) < 2 THEN [ok |-> FALSE, tags |-> tags]
    ELSE LET two == pl[2] >= 128
             hdr == IF two THEN 3 ELSE 2
         IN  IF Len(pl) < hdr THEN [ok |-> FALSE, tags |-> tags]
             ELSE LET n == IF two THEN (pl[2] - 128) + 128 * pl[3] ELSE pl[2]
                  IN  IF hdr + n > Len(pl) THEN [ok |-> FALSE, tags |-> tags]
                      ELSE TagsOfPayload(
                               SubSeq(pl, hdr + n + 1, Len(pl)),
                               Append(tags, [Type |-> pl[1],
                                             Data |-> SubSeq(pl, hdr + 1, hdr + n)]))

\* the buffer has 8 bytes or more, the right checksum and the declared
\* length of its payload
WellFramed(b) == Len(b) >= 8 /\ Declared(b) = Len(b) - 8 /\ ChecksumOk(b)

Payload(b) == Slice(b, 4, Len(b) - 4)

\* C24: for a buffer of 8 bytes or more with the right checksum and the
\* right declared length, UnmarshalBinary gives what the payload alone
\* determines: the tags that tile the payload exactly, or
\* io.ErrUnexpectedEOF when a tag's length field or data would pass the start
\* of the checksum; it never fails by an index out of range.
C24_TagsWithinPayload ==
    (cmode = "decode" /\ cstep = 1 /\ WellFramed(cdata)) =>
        LET w == TagsOfPayload(Payload(cdata), <<>>)
        IN  IF w.ok THEN cerr = "nil" /\ cpkt.Tags = w.tags
            ELSE cerr = "ErrUnexpectedEOF"

\* a payload of one byte, the type of a tag whose length field would be the
\* first byte of the checksum, was refused as truncated
C24_Witness ==
    /\ cmode = "decode" /\ cstep = 1
    /\ WellFramed(cdata)
    /\ Len(cdata) = 9
    /\ cerr = "ErrUnexpectedEOF"

\* a two-byte length field cut by the end of the payload
C24_WitnessFieldCut ==
    /\ cmode = "decode" /\ cstep = 1
    /\ WellFramed(cdata)
    /\ Len(cdata) = 10 /\ cdata[6] >= 128
    /\ cerr = "ErrUnexpectedEOF"

\* data of two bytes declared, one byte left in the payload
C24_WitnessDataCut ==
    /\ cmode = "decode" /\ cstep = 1
    /\ WellFramed(cdata)
    /\ Len(cdata) = 11 /\ cdata[6] = 2
    /\ cerr = "ErrUnexpectedEOF"

\* a payload of one tag whose data byte is the last before the checksum
C24_WitnessTiled ==
    /\ cmode = "decode" /\ cstep = 1
    /\ WellFramed(cdata)
    /\ Len(cdata) = 11
    /\ cerr = "nil" /\ Len(cpkt.Tags) = 1 /\ Len(cpkt.Tags[1].Data) = 1

-----------------------------------------------------------------------------
(* Receive buffer properties *)

\* the reply goroutine g holds, as g reads it now
Held(g) == Observe(gres[g].rep, cb)

\* C25: the reply Packet a goroutine got from Execute reads the same after
\* every step but the return of that goroutine's own next Execute, whatever
\* later calls read into the receive buffer c.b.
C25_ReplyNotOverwritten ==
    [][\A g \in Callers :
          gpc[g] \notin {"arm", "write", "read", "decode"} =>
              Observe(gres'[g].rep, cb') = Held(g)]_vars

\* both goroutines hold a reply, of different calls, and the buffer holds
\* the bytes of the later one
C25_Witness ==
    /\ gres[1].err = "nil" /\ gres[2].err = "nil"
    /\ gres[1].id < gres[2].id
    /\ gres[1].rep # gres[2].rep
    /\ gres[1].rep.Tags[1].Data = strBytes(QueryName(gres[1].id))
    /\ UnmarshalBinary(cb).Tags = gres[2].rep.Tags

-----------------------------------------------------------------------------
(* Execute stage properties *)

\* the stages of Execute in the order of its statements; the encoding is
\* the first half of the write stage
Stages == <<"arm", "write", "read", "decode">>

StageNo(pc) == CHOOSE i \in 1..Len(Stages) : Stages[i] = pc

InExecute(g) == gpc[g] \in {Stages[i] : i \in 1..Len(Stages)}

\* the error the stage goroutine g is at gives when it fails, as the callee
\* returned it
StageError(g) ==
    CASE gpc[g] = "arm"    -> "setdeadline"
      [] gpc[g] = "write"  -> LET m == MarshalBinary(QueryRequest(QueryName(gcall[g].id)))
                              IN  IF m.err # "nil" THEN m.err ELSE "write"
      [] gpc[g] = "read"   -> "read"
      [] gpc[g] = "decode" -> UnmarshalBinary(cb).err

\* goroutine g's Execute moves on to its next stage in this step
Advances(g) ==
    /\ InExecute(g) /\ gpc'[g] # "idle"
    /\ StageNo(gpc[g]) < Len(Stages)
    /\ gpc'[g] = Stages[StageNo(gpc[g]) + 1]

\* goroutine g's Execute returns an error in this step
Fails(g) ==
    /\ InExecute(g) /\ gpc'[g] = "idle"
    /\ gres'[g].err # "nil"

\* goroutine g's Execute returns a reply in this step
Succeeds(g) ==
    /\ gpc[g] = "decode" /\ gpc'[g] = "idle"
    /\ gres'[g].err = "nil"

\* C26: a step of Execute either moves to the next stage in the order arm,
\* (encode and) write, read, decode, or returns; bytes are written only by
\* the step from write to read, one request per call, and a reply is read
\* only by the step from read to decode; a failing stage returns its own
\* error and no reply, writes nothing, reads nothing more and leaves the
\* mutex free.
C26_ExecuteStages ==
    [][/\ \A g \in Callers :
             InExecute(g) /\ gpc'[g] # gpc[g] =>
                 \/ Advances(g)
                 \/ Succeeds(g)
                 \/ /\ Fails(g)
                    /\ gres'[g] = [id |-> gcall[g].id, err |-> StageError(g),
                                   rep |-> NoPacket]
                    /\ wire' = wire /\ rx' = rx /\ cb' = cb
                    /\ mu' = 0
       /\ Len(wire') > Len(wire) =>
             \E g \in Callers :
                 /\ gpc[g] = "write" /\ gpc'[g] = "read"
                 /\ wire' = Append(wire,
                        MarshalBinary(QueryRequest(QueryName(gcall[g].id))).b)
       /\ (cb' # cb \/ Len(rx') < Len(rx)) =>
             \E g \in Callers :
                 /\ gpc[g] = "read" /\ gpc'[g] = "decode"
                 /\ cb' = Head(rx) /\ rx' = Tail(rx)]_vars

\* an Execute failed and a later Execute on the same Client returned a reply
C26_Witness ==
    \E g, h \in Callers :
        /\ gres[g].err \notin {"nil", "none"}
        /\ gres[h].err = "nil"
        /\ gres[h].id > gres[g].id

\* each stage has failed in some call
C26_WitnessArm == \E g \in Callers : gres[g].err = "setdeadline"

C26_WitnessWrite ==
    \E g \in Callers : gres[g].err = "write" /\ gres[g].rep = NoPacket /\ mu = 0

C26_WitnessRead == \E g \in Callers : gres[g].err = "read"

C26_WitnessDecode ==
    \E g \in Callers : gres[g].err \notin {"nil", "none", "setdeadline", "write", "read"}

-----------------------------------------------------------------------------
(* Repeated tag properties *)

\* the positions of the tags of type typ
Occurrences(tags, typ) == {i \in 1..Len(tags) : tags[i].Type = typ}

\* the data of the first and of the last tag of type typ, Nil without one
FirstOf(tags, typ) ==
    LET occ == Occurrences(tags, typ)
    IN  IF occ = {} THEN Nil
        ELSE tags[CHOOSE i \in occ : \A j \in occ : i <= j].Data

LastOf(tags, typ) ==
    LET occ == Occurrences(tags, typ)
    IN  IF occ = {} THEN Nil
        ELSE tags[CHOOSE i \in occ : \A j \in occ : i >= j].Data

\* the harness has handed a get/set reply to Query, a discover reply to
\* newDiscoveredDevice
QueryDone == rpc = "done" /\ rpkt.Type = TypeGetsetRpy

DeviceDone == rpc = "done" /\ rpkt.Type = TypeDiscoverRpy

\* Query and newDiscoveredDevice go by the occurrence Pick chooses: Query
\* returns a value exactly when the reply has no error tag, the chosen name
\* tag is the query and there is a value tag, and then the chosen value;
\* the fields of an accepted device are those of the chosen tags
UsesOccurrence(Pick(_, _)) ==
    /\ QueryDone =>
          /\ rq.kind = "ok" <=>
                /\ Occurrences(rpkt.Tags, TagErrorMessage) = {}
                /\ Pick(rpkt.Tags, TagGetsetName) = strBytes(<<97>>)
                /\ Pick(rpkt.Tags, TagGetsetValue) # Nil
          /\ rq.kind = "ok" => rq.value = Pick(rpkt.Tags, TagGetsetValue)
    /\ DeviceDone /\ ~rd.err =>
          /\ rd.d.Type = Pick(rpkt.Tags, TagDeviceType)
          /\ rd.d.ID = EncodeToString(Pick(rpkt.Tags, TagDeviceId))
          /\ rd.d.URL = Pick(rpkt.Tags, TagBaseUrl)
          /\ rd.d.Tuners = IF Occurrences(rpkt.Tags, TagTunerCount) = {} THEN 0
                           ELSE Pick(rpkt.Tags, TagTunerCount)[1]

\* C27 as stated: of several tags of one recognized type Query and discovery
\* use the first.
C27_FirstOccurrence == UsesOccurrence(FirstOf)

\* C27: of several tags of one recognized type Query and discovery use the
\* last: Query the last name tag and the last value tag of a reply without
\* an error tag, discovery the last device-type, device-id, base-URL and
\* tuner-count tag.
C27_LastOccurrence == UsesOccurrence(LastOf)

\* Query returned the second of two different values
C27_Witness ==
    /\ QueryDone /\ rq.kind = "ok"
    /\ FirstOf(rpkt.Tags, TagGetsetValue) # LastOf(rpkt.Tags, TagGetsetValue)
    /\ rq.value = LastOf(rpkt.Tags, TagGetsetValue)

\* a reply naming the query first and another name last is refused
C27_WitnessName ==
    /\ QueryDone /\ rq.kind = "protocol"
    /\ Occurrences(rpkt.Tags, TagErrorMessage) = {}
    /\ FirstOf(rpkt.Tags, TagGetsetName) = strBytes(<<97>>)
    /\ LastOf(rpkt.Tags, TagGetsetName) # strBytes(<<97>>)
    /\ LastOf(rpkt.Tags, TagGetsetValue) # Nil

\* a device accepted with the second of two device types, of two device
\* IDs, of two base URLs
C27_WitnessDevice ==
    /\ DeviceDone /\ ~rd.err
    /\ FirstOf(rpkt.Tags, TagDeviceType) # LastOf(rpkt.Tags, TagDeviceType)
    /\ rd.d.Type = LastOf(rpkt.Tags, TagDeviceType)

C27_WitnessDeviceId ==
    /\ DeviceDone /\ ~rd.err
    /\ FirstOf(rpkt.Tags, TagDeviceId) # LastOf(rpkt.Tags, TagDeviceId)
    /\ rd.d.ID = EncodeToString(LastOf(rpkt.Tags, TagDeviceId))

C27_WitnessBaseUrl ==
    /\ DeviceDone /\ ~rd.err
    /\ FirstOf(rpkt.Tags, TagBaseUrl) # LastOf(rpkt.Tags, TagBaseUrl)
    /\ rd.d.URL = LastOf(rpkt.Tags, TagBaseUrl)

-----------------------------------------------------------------------------
(* Discover reply acceptance properties *)

\* every tag of type typ in the reply satisfies Ok
AllTags(typ, Ok(_)) ==
    \A i \in Occurrences(rpkt.Tags, typ) : Ok(rpkt.Tags[i].Data)

FourBytes(data) == Len(data) = 4

OneByte(data) == Len(data) = 1

Parses(data) == ~UrlParseFails(data)

\* the reply carries device-type tags and device-id tags, all of four
\* bytes, and the type in force is not zero
NamesDevice ==
    /\ Occurrences(rpkt.Tags, TagDeviceType) # {}
    /\ Occurrences(rpkt.Tags, TagDeviceId) # {}
    /\ AllTags(TagDeviceType, FourBytes)
    /\ AllTags(TagDeviceId, FourBytes)
    /\ LastOf(rpkt.Tags, TagDeviceType) # <<0, 0, 0, 0>>

\* the base-URL and tuner-count tags of the reply, if any, are well-formed
OptionalWellFormed ==
    /\ AllTags(TagBaseUrl, Parses)
    /\ AllTags(TagTunerCount, OneByte)

\* C28 as stated: a discover reply with a device-type and a device-id tag
\* yields a device whatever its base-URL and tuner-count tags hold.
C28_Original == DeviceDone /\ NamesDevice => ~rd.err

\* C28, what the code does: a discover reply yields a device exactly when it
\* names a device and its base-URL and tuner-count tags, if any, are
\* well-formed; absent ones leave URL nil and Tuners 0, present ones are
\* captured in the device.
C28_AcceptedReply ==
    DeviceDone =>
        /\ ~rd.err <=> NamesDevice /\ OptionalWellFormed
        /\ ~rd.err =>
              /\ rd.d.Addr = ReplyAddr
              /\ rd.d.URL = LastOf(rpkt.Tags, TagBaseUrl)
              /\ rd.d.Tuners = IF Occurrences(rpkt.Tags, TagTunerCount) = {} THEN 0
                               ELSE LastOf(rpkt.Tags, TagTunerCount)[1]

\* a reply with all four tags accepted, its URL and tuner count captured
C28_Witness ==
    /\ DeviceDone /\ ~rd.err
    /\ rd.d.URL = <<104>> /\ rd.d.Tuners = 2
    /\ rd.d.Type = <<0, 0, 0, 1>> /\ rd.d.ID = EncodeToString(<<16, 81, 171, 205>>)

\* a reply with the two required tags alone accepted
C28_WitnessBare ==
    /\ DeviceDone /\ ~rd.err /\ Len(rpkt.Tags) = 2
    /\ rd.d.URL = Nil /\ rd.d.Tuners = 0

\* a reply naming a device refused for its base URL, and one for its tuner
\* count
C28_WitnessBadUrl ==
    /\ DeviceDone /\ rd.err /\ NamesDevice
    /\ ~AllTags(TagBaseUrl, Parses) /\ AllTags(TagTunerCount, OneByte)

C28_WitnessBadTunerCount ==
    /\ DeviceDone /\ rd.err /\ NamesDevice
    /\ AllTags(TagBaseUrl, Parses) /\ ~AllTags(TagTunerCount, OneByte)

-----------------------------------------------------------------------------
(* Discover result properties *)

\* Discover returns in this step: from its loop, or at once on a context
\* that is done already
DiscoverReturns ==
    \/ dpc = "wait" /\ dpc' = "idle"
    \/ dpc = "idle" /\ dpc' = "idle" /\ dcalls' = dcalls + 1

\* ReadFrom returns an error in this step
ReadFails == dpc = "read" /\ dpc' = "readerr"

\* the value of ctx.Err() is looked at after a failed read
Consults == dpc = "readerr" /\ dpc' # "readerr"

\* C29: Discover returns io.EOF only on a context that is done; it returns
\* another error only from the path a failed read takes when the context
\* consulted after it was not done, a path on which the socket is closed
\* and no further read is made; a failed read followed by the consultation
\* of a done context leads to io.EOF and nothing else.
C29_SentinelAndFatal ==
    [][/\ DiscoverReturns /\ dret'.kind = "EOF" => IsDone(dctx')
       /\ DiscoverReturns /\ dret'.kind \notin {"EOF", "device"} =>
             /\ dret' = Ret("listener")
             /\ dpc = "wait" /\ dpend = Ret("listener")
             /\ dsock' = "closed"
       /\ dpend'.kind = "listener" /\ dpend.kind # "listener" =>
             dpc = "closeerr" /\ dsock' = "closed"
       /\ dpc' = "closeerr" /\ dpc # "closeerr" => dpc = "notifyerr"
       /\ dpc' = "notifyerr" /\ dpc # "notifyerr" => Consults /\ ~IsDone(dctx)
       /\ dpc' = "readerr" /\ dpc # "readerr" => ReadFails /\ dreads' = dreads + 1
       /\ Consults /\ IsDone(dctx) => dpend' = Ret("EOF") /\ dpc' = "wait"
       /\ dpend.kind \in {"EOF", "listener"} =>
             /\ dreads' = dreads \/ dcalls' # dcalls
             /\ dpend' = dpend \/ (DiscoverReturns /\ dret' = dpend)]_vars

\* Discover has returned the error of a failed read, the context not being
\* done when it was consulted and not since
C29_Witness ==
    /\ dpc = "idle" /\ dret = Ret("listener")
    /\ dctx = "nil" /\ dsock = "closed" /\ dreads > 0

\* a read failed on the open socket, the context was cancelled before it
\* was consulted, and Discover returned io.EOF
C29_WitnessLateCancel ==
    /\ dpc = "idle" /\ dret = Ret("EOF")
    /\ dcanAt = "readerr" /\ ~dpre

\* Discover returned the error of a failed read on a context cancelled
\* after it was consulted
C29_WitnessCancelAfterConsult ==
    /\ dpc = "idle" /\ dret = Ret("listener")
    /\ IsDone(dctx) /\ dcanAt \in {"notifyerr", "closeerr", "wait"}

-----------------------------------------------------------------------------
(* Terminal result properties *)

\* a Discover call has returned io.EOF or the error of a failed read (what
\* Discover returned last stays in dret until the next return)
Terminal == dcalls > 0 /\ dret.kind \in {"EOF", "listener"}

\* the context was done before ctx.Err() was consulted after the failed read
FiredBeforeConsulted == dpre \/ dcanAt \in {"start", "read", "readerr"}

\* C30: once Discover has returned io.EOF or the error of a failed read,
\* the socket is closed and stays closed, no device is returned any more,
\* and every later call that returns returns io.EOF, its context being
\* done, or the error of the read on the closed socket, its context not
\* having been done when consulted.
C30_Terminal ==
    [][Terminal =>
          /\ dsock = "closed" /\ dsock' = "closed"
          /\ dfound' = dfound
          /\ dpend'.kind # "device"
          /\ DiscoverReturns =>
                /\ dret'.kind \in {"EOF", "listener"}
                /\ dret'.kind = "EOF" => IsDone(dctx')
                /\ dret'.kind = "listener" => ~FiredBeforeConsulted'
                /\ ~IsDone(dctx') => dret'.kind = "listener"]_vars

\* the second call returned the error of its read on the closed socket while
\* a device's reply, received before the first call ended, lies unread
C30_Witness ==
    /\ dcalls = 2 /\ dpc = "idle" /\ dfound = <<>>
    /\ dret = Ret("listener") /\ dreads > 0
    /\ \E i \in 1..Len(dinbox) : dinbox[i] = Datagram("device")
    /\ dsock = "closed"

\* the second call returned io.EOF after the first had returned an error
C30_WitnessSentinel ==
    /\ dcalls = 2 /\ dpc = "idle" /\ dfound = <<>>
    /\ dret = Ret("EOF") /\ dreads > 0 /\ ~dpre

\* the first call returned the error of a failed read
C30_WitnessFatalFirst ==
    /\ dcalls = 1 /\ dpc = "idle" /\ dret = Ret("listener") /\ dsock = "closed"

-----------------------------------------------------------------------------
(* Empty payload properties *)

\* b is a valid buffer whose payload length is 0: eight bytes, a declared
\* length of 0 and the checksum of the first four
EmptyPayload(b) ==
    /\ Len(b) = 8
    /\ Uint16BE(Slice(b, 2, 4)) = 0
    /\ Slice(b, 4, 8) = ChecksumIEEE(Slice(b, 0, 4))

\* C31: UnmarshalBinary of a valid buffer with an empty payload returns no
\* error and leaves the Packet with the decoded type and no tags, whatever
\* the Packet held before.
C31_EmptyPayload ==
    upc = "done" /\ EmptyPayload(ubuf) =>
        /\ uerr = "nil"
        /\ upkt.Type = Uint16BE(Slice(ubuf, 0, 2))
        /\ upkt.Tags = <<>>

\* C31 for a Packet without tags before the call, and the other cases: a
\* payload that is not empty replaces the tags when it decodes, and a
\* refused buffer leaves the tags of before; on a fresh Packet the call
\* gives what UnmarshalBinary above gives
C31_OtherReceivers ==
    upc = "done" =>
        /\ EmptyPayload(ubuf) /\ urecv.Tags = <<>> =>
              uerr = "nil" /\ upkt = [Type |-> Uint16BE(Slice(ubuf, 0, 2)), Tags |-> <<>>]
        /\ EmptyPayload(ubuf) => uerr = "nil" /\ upkt.Tags = urecv.Tags
        /\ uerr = "nil" /\ ~EmptyPayload(ubuf) =>
              MarshalBinary(upkt).b = ubuf
        /\ uerr # "nil" => upkt.Tags = urecv.Tags
        /\ urecv = NoPacket =>
              LET r == UnmarshalBinary(ubuf)
              IN  uerr = r.err /\ upkt = [Type |-> r.Type, Tags |-> r.Tags]

\* an empty payload decoded into a Packet that held tags: no error, the new
\* type, the old tags
C31_StaleTags ==
    /\ upc = "done" /\ EmptyPayload(ubuf) /\ uerr = "nil"
    /\ urecv.Tags # <<>> /\ upkt.Tags = urecv.Tags
    /\ upkt.Type # urecv.Type

-----------------------------------------------------------------------------
(* Client lifetime properties *)

\* ServeHTTP returns in this step
ServeReturns == hpc # "idle" /\ hpc' = "idle"

\* C32: the Client a successful dial returned is open while Collect queries
\* the device, is closed once, by the step in which ServeHTTP returns,
\* whether the model query or the tuner enumeration failed or not, and is
\* not queried afterwards; between requests no Client is open.
C32_ClosedOnce ==
    /\ [](/\ hpc = "idle" => hclient # "open"
          /\ hpc \in {"model", "tuners", "respond", "close"} =>
                hclient = "open" /\ hcloses = 0
          /\ hcloses <= 1
          /\ hclient = "closed" <=> hcloses = 1)
    /\ [][/\ ServeReturns /\ hclient = "open" =>
                hclient' = "closed" /\ hcloses' = 1 /\ hcalls' = hcalls
          /\ hcalls' # hcalls /\ hcalls' # <<>> => hclient = "open" /\ hclient' = "open"
          /\ hclient = "open" /\ hclient' # "open" => ServeReturns]_vars

\* a scrape whose model query failed has returned, its Client closed once
C32_Witness ==
    /\ hpc = "idle" /\ hfail = "model"
    /\ hclient = "closed" /\ hcloses = 1
    /\ hcalls = <<"Model">> /\ Len(hdials) = 1

\* the same after a failed tuner enumeration, and after a scrape that
\* succeeded
C32_WitnessTuners ==
    /\ hpc = "idle" /\ hfail = "tuners"
    /\ hclient = "closed" /\ hcloses = 1
    /\ hcalls = <<"Model", "ForEachTuner">>

C32_WitnessSuccess ==
    /\ hpc = "idle" /\ hfail = "none" /\ hcode = StatusOK
    /\ hclient = "closed" /\ hcloses = 1
    /\ hcalls = <<"Model", "ForEachTuner">>

-----------------------------------------------------------------------------
(* Collect: a failed Model query and a failed tuner enumeration *)

\* the Model query failed: the first metric is the invalid device_info
ModelFailed == Len(kch) >= 1 /\ kch[1].invalid

\* ForEachTuner returned an error: Collect returned after sending the
\* invalid tuner_info
EnumFailed ==
    /\ kpc = "done" /\ Len(kch) >= 2
    /\ kch[Len(kch)].invalid /\ kch[Len(kch)].desc = TunerInfo

\* the tuner queries among the queries made
TunerQueries == {n \in 1..Len(kq) : kq[n][1] = "debug"}

\* how many metrics a visited tuner with the sections secs accounts for,
\* CableCARD counted for the first tuner only
RECURSIVE SentFor(_)
SentFor(n) ==
    IF n = 0 THEN 0
    ELSE SentFor(n - 1)
         + (IF "tun" \in kseen[n] THEN 4 ELSE 0)
         + (IF "net" \in kseen[n] THEN 2 ELSE 0)
         + (IF "cc" \in kseen[n] /\ n = 1 THEN 3 ELSE 0)

\* the tuner a metric is labelled with, <<>> when it has no tuner label
TunerLabel(m) ==
    IF /\ \/ m.desc = TunerInfo
          \/ \E n \in 1..Len(TunerRatios) : m.desc = TunerRatios[n]
          \/ \E n \in 1..Len(NetworkGauges) : m.desc = NetworkGauges[n]
       /\ ~m.invalid
    THEN m.labels[1] ELSE <<>>

\* C33: when the Model query fails exactly one invalid metric is sent and no
\* tuner query is made; when the enumeration fails at tuner ki, what was
\* sent for the tuners before ki stays sent, one invalid metric follows it
\* and nothing is sent for tuner ki or a later one
C33_CollectErrors ==
    /\ [](/\ ModelFailed =>
                /\ kch = <<InvalidMetric(DeviceInfo)>>
                /\ kq = <<(<<"model">>)>>
                /\ TunerQueries = {}
                /\ kpc = "done"
          /\ EnumFailed =>
                /\ Len(kseen) = ki
                /\ Len(kch) = 1 + SentFor(ki) + 1
                /\ \A n \in 1..(Len(kch) - 1) : ~kch[n].invalid
                /\ \A n \in 1..Len(kch) :
                      TunerLabel(kch[n]) \in {<<>>} \cup {Itoa(j) : j \in 0..(ki - 1)}
                /\ \A j \in 0..(ki - 1) :
                      "tun" \in kseen[j + 1] =>
                         \E n \in 2..(Len(kch) - 1) :
                            kch[n] = ConstMetric(TunerInfo, <<Itoa(j), Channel, LockName>>))
    /\ [][/\ Len(kch') >= Len(kch)
          /\ SubSeq(kch', 1, Len(kch)) = kch
          /\ kpc = "done" => kch' = kch /\ kq' = kq
          /\ Len(kch') > Len(kch) /\ kch'[Len(kch')].invalid =>
                /\ Len(kch') = Len(kch) + 1
                /\ kpc' = "done"]_vars

\* the enumeration failed at tuner 2 after metrics of tuners 0 and 1
C33_Witness ==
    /\ EnumFailed /\ ki = 2
    /\ "tun" \in kseen[1] /\ "net" \in kseen[2]
    /\ Len(kch) > 2

\* the Model query failed
C33_WitnessModel == ModelFailed /\ kpc = "done"

\* the enumeration failed in the probe of tuner 1, and in the callback's
\* own query of tuner 1
C33_WitnessProbe == EnumFailed /\ ki = 1 /\ Len(kq) = 4

C33_WitnessCallback == EnumFailed /\ ki = 1 /\ Len(kq) = 5

-----------------------------------------------------------------------------
(* Collect: the CableCARD metrics *)

\* the places in ch of the metrics of one family
Sent(desc) == {n \in 1..Len(kch) : kch[n].desc = desc /\ ~kch[n].invalid}

\* the places in ch of the CableCARD metrics
CableCARDSent == UNION {Sent(CableCARDGauges[j]) : j \in 1..Len(CableCARDGauges)}

\* the places in ch of what was sent for the tuners after the first
LaterTunerSent ==
    {n \in 1..Len(kch) : TunerLabel(kch[n]) \notin {<<>>, Itoa(0)}}

\* C34: the three CableCARD metrics are sent at most once in a Collect,
\* however many tuners there are, and by the first tuner visited only: they
\* are sent exactly when that tuner's status has a CableCARD section, and
\* the CableCARD section of a later tuner is never sent
C34_CableCARDOnce ==
    /\ [](/\ \A j \in 1..Len(CableCARDGauges) :
                Cardinality(Sent(CableCARDGauges[j])) <= 1
          /\ CableCARDSent # {} <=> (Len(kseen) >= 1 /\ "cc" \in kseen[1])
          /\ CableCARDSent # {} =>
                /\ Cardinality(CableCARDSent) = 3
                /\ \A n \in CableCARDSent : \A l \in LaterTunerSent : n < l
          /\ kcc <=> Len(kseen) >= 1)
    /\ [][Len(kseen) >= 1 =>
             \A n \in (Len(kch) + 1)..Len(kch') :
                \A j \in 1..Len(CableCARDGauges) : kch'[n].desc # CableCARDGauges[j]]_vars

\* three tuners were visited, each with a CableCARD section, and the three
\* CableCARD metrics were sent once
C34_Witness ==
    /\ Len(kseen) = 3
    /\ \A n \in 1..3 : "cc" \in kseen[n]
    /\ Cardinality(CableCARDSent) = 3
    /\ LaterTunerSent # {}

\* the first tuner had no CableCARD section and the second had one: no
\* CableCARD metric was sent
C34_WitnessLater ==
    /\ Len(kseen) >= 2
    /\ "cc" \notin kseen[1] /\ "cc" \in kseen[2]
    /\ CableCARDSent = {}

-----------------------------------------------------------------------------
(* Collect: the metrics of a device with N tuners *)

\* Collect returned without an error of the device: N tuners were visited
\* and the probe of tuner N said there is no such tuner
Collected == kpc = "done" /\ \A n \in 1..Len(kch) : ~kch[n].invalid

\* the expected metrics of tuner j whose status has the sections secs
TunerGroup(j, secs) ==
    (IF "tun" \in secs
     THEN <<[desc |-> TunerInfo, labels |-> <<Itoa(j), Channel, LockName>>, invalid |-> FALSE],
            [desc |-> TunerRatios[1], labels |-> <<Itoa(j)>>, invalid |-> FALSE],
            [desc |-> TunerRatios[2], labels |-> <<Itoa(j)>>, invalid |-> FALSE],
            [desc |-> TunerRatios[3], labels |-> <<Itoa(j)>>, invalid |-> FALSE]>>
     ELSE <<>>)
    \o (IF "net" \in secs
        THEN <<[desc |-> NetworkGauges[1], labels |-> <<Itoa(j)>>, invalid |-> FALSE],
               [desc |-> NetworkGauges[2], labels |-> <<Itoa(j)>>, invalid |-> FALSE]>>
        ELSE <<>>)

\* ch without the CableCARD metrics
RECURSIVE WithoutCableCARD(_)
WithoutCableCARD(ch) ==
    IF ch = <<>> THEN <<>>
    ELSE IF \E j \in 1..Len(CableCARDGauges) : Head(ch).desc = CableCARDGauges[j]
         THEN WithoutCableCARD(Tail(ch))
         ELSE <<Head(ch)>> \o WithoutCableCARD(Tail(ch))

\* the groups of tuners 0..n-1, in index order
RECURSIVE TunerGroups(_)
TunerGroups(n) ==
    IF n = 0 THEN <<>> ELSE TunerGroups(n - 1) \o TunerGroup(n - 1, kseen[n])

\* C35: when the model query succeeds, device_info is sent once and first;
\* for a device with N tuners it is followed by, for each tuner in index
\* order and labelled with the index, tuner_info and the three ratios when
\* the status has a Tuner section and then the two network gauges when it
\* has a Network section; every metric is of one of the ten described
\* families; with N = 0 device_info is the only metric
C35_Metrics ==
    /\ \A n \in 1..Len(kch) : \E j \in 1..Len(Describe) : kch[n].desc = Describe[j]
    /\ (Len(kch) >= 1 /\ ~ModelFailed) =>
          /\ kch[1] = [desc |-> DeviceInfo, labels |-> <<ModelName>>, invalid |-> FALSE]
          /\ \A n \in 2..Len(kch) : kch[n].desc = DeviceInfo => kch[n].invalid
    /\ Collected =>
          /\ Len(kseen) = ki
          /\ WithoutCableCARD(Tail(kch)) = TunerGroups(ki)
          /\ ki = 0 => kch = <<[desc |-> DeviceInfo, labels |-> <<ModelName>>, invalid |-> FALSE]>>

\* Collect returned for a device with three tuners: the first with all the
\* sections, the second with none, the third with a Network section only
C35_Witness ==
    /\ Collected /\ ki = 3
    /\ kseen = <<{"tun", "net", "cc"}, {}, {"net"}>>
    /\ Len(kch) = 12

\* Collect returned for a device without tuners
C35_WitnessNone == Collected /\ ki = 0 /\ Len(kq) = 2 /\ Len(kch) = 1

-----------------------------------------------------------------------------
(* Tag length helpers: the buffer-size error *)

\* C36: writeTagLength and readTagLength return the buffer-size error, write
\* nothing and consume nothing whenever their buffer is not exactly 2 bytes
\* long, also for a length that needs one byte; MarshalBinary and
\* UnmarshalBinary hand them windows of exactly 2 bytes inside the buffer,
\* and neither returns the buffer-size error
C36_BufferSize ==
    /\ bpc \in {"read", "marshal", "unmarshal", "done"} =>
          /\ Len(bbuf) # 2 =>
                bw = [b |-> bbuf, consumed |-> 0, err |-> "errTagLengthBuffer"]
          /\ Len(bbuf) = 2 => bw.err = "nil" /\ bw.consumed \in {1, 2}
    /\ bpc \in {"marshal", "unmarshal", "done"} =>
          /\ Len(bbuf) # 2 =>
                brd = [length |-> 0, consumed |-> 0, err |-> "errTagLengthBuffer"]
          /\ Len(bbuf) = 2 => brd.err = "nil" /\ brd.consumed \in {1, 2}
    /\ bpc \in {"unmarshal", "done"} =>
          /\ benc.err = "nil"
          /\ Len(benc.windows) = Len(BufPacket.Tags)
          /\ \A n \in 1..Len(benc.windows) :
                /\ benc.windows[n] >= 4
                /\ benc.windows[n] + 2 <= benc.size - 4 + 1
                /\ Len(Slice([j \in 1..benc.size |-> 0],
                             benc.windows[n], benc.windows[n] + 2)) = 2
    /\ bpc = "done" => bdec \notin {"errTagLengthBuffer", "panic"}

\* a one-byte buffer and a length that needs one byte: the error, nothing
\* written or consumed
C36_Witness ==
    /\ bpc = "done"
    /\ Len(bbuf) = 1 /\ bn < largeTagLength
    /\ bw = [b |-> bbuf, consumed |-> 0, err |-> "errTagLengthBuffer"]
    /\ brd.err = "errTagLengthBuffer"
    /\ benc.err = "nil" /\ bdec # "errTagLengthBuffer"

\* the other lengths: an empty buffer, and three bytes with a two-byte length
C36_WitnessEmpty == bpc = "done" /\ bbuf = <<>> /\ bw.err = "errTagLengthBuffer"

C36_WitnessLong ==
    /\ bpc = "done" /\ Len(bbuf) = 3 /\ bn >= largeTagLength
    /\ bw.err = "errTagLengthBuffer" /\ brd.err = "errTagLengthBuffer"

\* the last tag encoded has no data: its window ends on the first byte of
\* the checksum; and a decoded payload whose last length window does
C36_WitnessLastWindow ==
    /\ bpc = "done" /\ bbuf = <<>>
    /\ benc.windows[2] + 2 = benc.size - 4 + 1

C36_WitnessDecodeWindow ==
    /\ bpc = "done" /\ Len(bbuf) = 2 /\ bbuf[2] = 128
    /\ bdec = "ErrUnexpectedEOF"

====
